---- MODULE Spec2Model ----
(***************************************************************************)
(* Kora n8n nodes: the execute loops of KoraGate, KoraAuthorize and Kora   *)
(* (operations spend, checkBudget and health), with the shared client      *)
(* (authorizeSpend, handleKoraError) and the Kora node's own transport.    *)
(*                                                                         *)
(* One behaviour is one invocation of execute of one node; execute is      *)
(* suspended at every await, between a request and its answer.  The remote *)
(* service and the network are the environment: every budget query and     *)
(* every authorize call draws its outcome from the sets below.  The agent  *)
(* secret is taken to parse (credential parsing is a pure function of its  *)
(* own).                                                                   *)
(***************************************************************************)
EXTENDS Integers, Sequences, FiniteSets, TLC

\* Largest number of input items of one invocation (items.length).
MaxItems == 2

VARIABLES
    node,              \* the node whose execute runs
    nodeOperation,     \* the operation parameter of the Kora node
    continueOnFail,    \* the host's continue-on-fail setting (this.continueOnFail())
    nItems,            \* items.length
    i,                 \* the loop index of execute (0-based, as in the code)
    pc,                \* position in execute
    approvedItems,     \* the local array approvedItems / approved
    deniedItems,       \* the local array deniedItems / denied
    insufficientItems, \* the local array insufficientItems (KoraGate only)
    output,            \* what execute has returned to the host
    error,             \* the error execute has thrown to the host
    cur,               \* the item of the current iteration: parameters and call outcomes
    authCount,         \* per item index: authorize requests sent
    calls,             \* the requests sent so far, in order
    lab                \* the inputs and results of the pure functions under test

vars == <<node, nodeOperation, continueOnFail, nItems, i, pc, approvedItems, deniedItems,
          insufficientItems, output, error, cur, authCount, calls, lab>>

Nodes == {"KoraGate", "KoraAuthorize", "Kora"}

----------------------------------------------------------------------------
(* Inputs: node parameters *)

\* amountCents: default 0, no minimum enforced by the parameter declaration.
Amounts == {-1, 0, 2, 3}
\* minimumRequired: default 0 ("0 = use the request amount").
Minimums == {0, 3}

----------------------------------------------------------------------------
(* Inputs: what the service and the network can answer *)

StatusCodes == {200, 400, 401, 403, 404, 409, 429, 500, 503}
NetCodes == {"ECONNREFUSED", "ETIMEDOUT", "ENOTFOUND"}

\* A response body.  json: the body parses as JSON.  null: the parsed value
\* is null (any other value has properties to read).  decision and status
\* are the body's fields of those names ("absent" = undefined).
\* notary_seal and seal say whether the field of that name is present.
Body(j, d, s, ns, sl) ==
    [json |-> j, null |-> FALSE, decision |-> d, status |-> s,
     notary_seal |-> ns, seal |-> sl]

NonJsonBody == Body(FALSE, "absent", "absent", FALSE, FALSE)
ErrorBody == Body(TRUE, "absent", "absent", FALSE, FALSE)
\* The body is the JSON text null.
NullBody == [ErrorBody EXCEPT !.null = TRUE]

Bodies ==
    { Body(TRUE, "APPROVED", "absent", FALSE, FALSE),
      Body(TRUE, "APPROVED", "absent", FALSE, TRUE),
      Body(TRUE, "APPROVED", "absent", TRUE, FALSE),
      Body(TRUE, "DENIED", "absent", FALSE, FALSE),
      Body(TRUE, "PENDING", "absent", FALSE, FALSE),
      Body(TRUE, "absent", "APPROVED", FALSE, TRUE),
      ErrorBody,
      NullBody,
      NonJsonBody }

NoCall == [kind |-> "none", code |-> "", status |-> 0, body |-> NonJsonBody]

\* The outcome of one HTTP round trip: the network fails, or a response arrives.
HttpOutcomes ==
    { [kind |-> "neterr", code |-> c, status |-> 0, body |-> NonJsonBody] : c \in NetCodes }
    \cup
    { [kind |-> "http", code |-> "", status |-> s, body |-> b] : s \in StatusCodes, b \in Bodies }

\* A JavaScript error object, by the fields the handlers read (0 / "" = undefined).
JsError(code, causeCode, statusCode, responseStatus, httpCode, isNOE, message) ==
    [code |-> code, causeCode |-> causeCode, statusCode |-> statusCode,
     responseStatus |-> responseStatus, httpCode |-> httpCode,
     isNodeOperationError |-> isNOE, message |-> message]

NoError == JsError("", "", 0, 0, 0, FALSE, "")

\* The budget query (kora.checkBudget() of the SDK): a snapshot, or a throw.
NoBudget ==
    [kind |-> "none", remainingCents |-> 0, status |-> "", spendAllowed |-> FALSE,
     error |-> NoError]

BudgetRemaining == {0, 2, 3}
BudgetStatuses == {"active", "suspended"}

BudgetOutcomes ==
    { [kind |-> "ok", remainingCents |-> r, status |-> st, spendAllowed |-> sa,
       error |-> NoError] :
        r \in BudgetRemaining, st \in BudgetStatuses, sa \in BOOLEAN }
    \cup
    { [kind |-> "throw", remainingCents |-> 0, status |-> "", spendAllowed |-> FALSE,
       error |-> e] :
        e \in { JsError("", "", 503, 0, 0, FALSE, "Kora server error: HTTP <status>"),
                JsError("", "", 0, 500, 0, FALSE, "Internal Server Error"),
                JsError("ECONNREFUSED", "", 0, 0, 0, FALSE, "Connection refused"),
                JsError("", "ETIMEDOUT", 0, 0, 0, FALSE, "fetch failed") } }

----------------------------------------------------------------------------
(* Results of a call that may throw *)

Threw(e) == [threw |-> TRUE, sent |-> FALSE, error |-> e, result |-> NonJsonBody]
ThrewAfterSend(e) == [threw |-> TRUE, sent |-> TRUE, error |-> e, result |-> NonJsonBody]
Returned(b) == [threw |-> FALSE, sent |-> TRUE, error |-> NoError, result |-> b]

----------------------------------------------------------------------------
(* src/shared/koraClient.ts *)

NodeOperationError(message) == JsError("", "", 0, 0, 0, TRUE, message)

\* fetch() rejects with TypeError("fetch failed") whose cause carries the code.
FetchFailed(code) == JsError("", code, 0, 0, 0, FALSE, "fetch failed")

\* response.json() on a body that is not JSON.
JsonSyntaxError == JsError("", "", 0, 0, 0, FALSE, "Unexpected token in JSON")

\* Reading a property of a parsed body that is null.
NullTypeError ==
    JsError("", "", 0, 0, 0, FALSE, "Cannot read properties of null")

\* authorizeSpend with the 5xx test off by one (status > 500).
authorizeSpend_gt500(o) ==
    IF o.kind = "neterr" THEN ThrewAfterSend(FetchFailed(o.code))
    ELSE IF o.status > 500
        THEN ThrewAfterSend(JsError("", "", o.status, 0, 0, FALSE,
                                    "Kora server error: HTTP <status>"))
    ELSE IF ~o.body.json THEN ThrewAfterSend(JsonSyntaxError)
    ELSE Returned(o.body)

\* authorizeSpend that swallows a rejected fetch and answers an empty object.
authorizeSpend_swallow(o) ==
    IF o.kind = "neterr" THEN Returned(ErrorBody)
    ELSE IF o.status >= 500
        THEN ThrewAfterSend(JsError("", "", o.status, 0, 0, FALSE,
                                    "Kora server error: HTTP <status>"))
    ELSE IF ~o.body.json THEN ThrewAfterSend(JsonSyntaxError)
    ELSE Returned(o.body)

\* authorizeSpend: one fetch; throws on a rejected fetch, on status >= 500 and
\* on a body that is not JSON; any other response is returned as parsed.
authorizeSpend(o) ==
    IF o.kind = "neterr" THEN ThrewAfterSend(FetchFailed(o.code))
    ELSE IF o.status >= 500
        THEN ThrewAfterSend(JsError("", "", o.status, 0, 0, FALSE,
                                    "Kora server error: HTTP <status>"))
    ELSE IF ~o.body.json THEN ThrewAfterSend(JsonSyntaxError)
    ELSE Returned(o.body)

\* handleKoraError: always throws; the value is the NodeOperationError thrown.
handleKoraError(e) ==
    IF e.statusCode >= 500 \/ e.responseStatus >= 500
        THEN NodeOperationError(
            "Kora unavailable (<status>). Workflow stopped. No authorization = no payment.")
    ELSE IF e.code = "ECONNREFUSED" \/ e.code = "ETIMEDOUT" \/ e.causeCode = "ECONNREFUSED"
        THEN NodeOperationError("Cannot reach Kora. Workflow stopped.")
    ELSE NodeOperationError(IF e.message # "" THEN e.message ELSE "Unknown Kora error")

----------------------------------------------------------------------------
(* Output items *)

\* An item pushed on an output array.  item: the loop index that pushed it;
\* decision: json.decision; seal: json.seal (json.seal_signature in Kora) is
\* not null; error: json.error of a continue-on-fail item.
OutItem(item, decision, seal, err) ==
    [item |-> item, decision |-> decision, seal |-> seal, error |-> err]

ItemsOf(arr) == { arr[k].item : k \in 1..Len(arr) }

NoOutput == [delivered |-> FALSE, approved |-> <<>>, denied |-> <<>>, insufficient |-> <<>>]

----------------------------------------------------------------------------
(* src/nodes/KoraGate/KoraGate.node.ts and KoraAuthorize (src/unnamed/part_003) *)

\* const decision = result.decision ?? result.status
DecisionOf(result) ==
    IF result.decision # "absent" THEN result.decision ELSE result.status

\* const threshold = minimumRaw > 0 ? minimumRaw : amountCents
Threshold(minimumRaw, amountCents) ==
    IF minimumRaw > 0 THEN minimumRaw ELSE amountCents

\* The pre-check with the comparison off by one (<=).
BudgetInsufficient_le(budget, threshold) ==
    budget.remainingCents <= threshold \/ ~budget.spendAllowed

\* The pre-check testing only spendAllowed.
BudgetInsufficient_noRemaining(budget, threshold) ==
    ~budget.spendAllowed

\* budget.daily.remainingCents < threshold || !budget.spendAllowed
BudgetInsufficient(budget, threshold) ==
    budget.remainingCents < threshold \/ ~budget.spendAllowed

----------------------------------------------------------------------------
(* src/nodes/Kora/Kora.node.ts *)

\* ctx.helpers.httpRequest rejects when the network fails and on every
\* status outside 2xx; the error carries the status.
HttpRequestError(o) ==
    IF o.kind = "neterr"
        THEN JsError(o.code, "", 0, 0, 0, FALSE, "connect <code>")
        ELSE JsError("", "", 0, o.status, o.status, FALSE,
                     "Request failed with status code <status>")

\* doSpend: the amount check, one httpRequest, the body parsed and mapped to
\* { decision: data.decision, seal_signature: data.seal?.signature ?? null, ... };
\* data.decision throws on a body that is null.
doSpend(amountCents, o) ==
    IF amountCents <= 0
        THEN Threw(NodeOperationError("Amount must be greater than 0"))
    ELSE IF o.kind = "neterr" \/ o.status < 200 \/ o.status > 299
        THEN ThrewAfterSend(HttpRequestError(o))
    ELSE IF ~o.body.json THEN ThrewAfterSend(JsonSyntaxError)
    ELSE IF o.body.null THEN ThrewAfterSend(NullTypeError)
    ELSE Returned(Body(TRUE, o.body.decision, "absent", FALSE, o.body.seal))

\* Number(error?.httpCode ?? error?.response?.status ?? error?.statusCode ?? 0)
ErrorStatus(e) ==
    IF e.httpCode # 0 THEN e.httpCode
    ELSE IF e.responseStatus # 0 THEN e.responseStatus
    ELSE e.statusCode

\* The catch block of Kora.execute below the continueOnFail test: the error
\* thrown to the host.
KoraRethrow(e) ==
    IF e.isNodeOperationError THEN e
    ELSE IF ErrorStatus(e) = 400 THEN NodeOperationError("Bad request: <message>")
    ELSE IF ErrorStatus(e) = 401 THEN NodeOperationError("Invalid credentials")
    ELSE IF ErrorStatus(e) = 403 THEN NodeOperationError("Forbidden")
    ELSE IF ErrorStatus(e) = 404 THEN NodeOperationError("Not found: <message>")
    ELSE IF ErrorStatus(e) = 429 THEN NodeOperationError("Rate limited - retry later")
    ELSE IF ErrorStatus(e) >= 500
        THEN NodeOperationError(
            "Kora returned <status>. Workflow stopped - no authorization = no payment.")
    ELSE NodeOperationError("Kora unavailable: <message>. No authorization = no payment.")

----------------------------------------------------------------------------
(* State machine *)

\* The execute loops do not use lab.
NoLab == [tag |-> "none"]

\* The operations of the Kora node (KoraGate and KoraAuthorize have none).
KoraOperations == {"spend", "checkBudget", "health"}

NoItem ==
    [item |-> -1, amountCents |-> 0, preCheck |-> FALSE, minimumRequired |-> 0,
     budget |-> NoBudget, auth |-> NoCall, pending |-> NoCall, http |-> NoCall]

\* What one invocation of execute never changes.
config == <<lab, node, nodeOperation, continueOnFail, nItems>>

Init ==
    /\ node \in Nodes
    /\ nodeOperation \in (IF node = "Kora" THEN KoraOperations ELSE {"none"})
    \* Only Kora.execute reads continueOnFail().
    /\ continueOnFail \in (IF node = "Kora" THEN BOOLEAN ELSE {FALSE})
    /\ nItems \in 0..MaxItems
    /\ i = 0
    /\ pc = "loop"
    /\ approvedItems = <<>>
    /\ deniedItems = <<>>
    /\ insufficientItems = <<>>
    /\ output = NoOutput
    /\ error = NoError
    /\ cur = NoItem
    /\ authCount = [k \in 0..(MaxItems - 1) |-> 0]
    /\ calls = <<>>
    /\ lab = NoLab

\* Fail with the loop going on to the next item after the error.
Fail_continue(e) ==
    /\ pc' = "loop"
    /\ i' = i + 1
    /\ error' = e
    /\ UNCHANGED <<approvedItems, deniedItems, insufficientItems, output>>

\* Fail with the items classified so far delivered before the throw.
Fail_deliverPartial(e) ==
    /\ pc' = "failed"
    /\ error' = e
    /\ output' = [delivered |-> TRUE, approved |-> approvedItems,
                  denied |-> deniedItems, insufficient |-> insufficientItems]
    /\ UNCHANGED <<i, approvedItems, deniedItems, insufficientItems>>

\* execute throws e: nothing is returned.
Fail(e) ==
    /\ pc' = "failed"
    /\ error' = e
    /\ UNCHANGED <<i, approvedItems, deniedItems, insufficientItems, output>>

\* The end of one loop iteration.
NextItem ==
    /\ i' = i + 1
    /\ pc' = "loop"
    /\ UNCHANGED <<error, output>>

\* Sent with the request issued twice.
Sent_retry(op) ==
    /\ calls' = calls \o <<[op |-> op, item |-> i], [op |-> op, item |-> i]>>
    /\ authCount' = IF op = "authorize"
                        THEN [authCount EXCEPT ![i] = @ + 2] ELSE authCount

\* A request of item i goes out; execute is suspended until it is answered.
Sent(op) ==
    /\ calls' = Append(calls, [op |-> op, item |-> i])
    /\ authCount' = IF op = "authorize"
                        THEN [authCount EXCEPT ![i] = @ + 1] ELSE authCount

\* The routing of KoraGate and KoraAuthorize after authorizeSpend returned.
RouteDecision(result) ==
    IF DecisionOf(result) = "APPROVED"
        THEN /\ approvedItems' =
                    Append(approvedItems, OutItem(i, "APPROVED", result.notary_seal, ""))
             /\ UNCHANGED <<deniedItems, insufficientItems>>
        ELSE /\ deniedItems' = Append(deniedItems, OutItem(i, "DENIED", FALSE, ""))
             /\ UNCHANGED <<approvedItems, insufficientItems>>

\* authorizeSpend resumed by fetch: the request of item i is answered by o.
\* A rejected fetch and a status >= 500 throw; otherwise response.json() is
\* awaited (cur.pending is the response whose body is being read).
FetchAnswered(o) ==
    LET r == authorizeSpend(o) IN
    /\ IF r.threw /\ r.error # JsonSyntaxError
         THEN /\ cur' = [cur EXCEPT !.auth = o]
              /\ Fail(handleKoraError(r.error))
         ELSE /\ cur' = [cur EXCEPT !.pending = o]
              /\ pc' = "awaitBody"
              /\ UNCHANGED <<i, approvedItems, deniedItems, insufficientItems,
                             output, error>>
    /\ UNCHANGED <<config, authCount, calls>>

\* authorizeSpend resumed by response.json(): a body that does not parse is
\* thrown to the catch block; the parsed body is returned and routed.
\* result.decision throws on a body that is null: in KoraGate the routing
\* is inside the try block, so handleKoraError receives the TypeError; in
\* KoraAuthorize it is below the try block, so the TypeError leaves execute
\* as it is.
BodyRead ==
    LET r == authorizeSpend(cur.pending) IN
    /\ cur' = [cur EXCEPT !.auth = cur.pending, !.pending = NoCall]
    /\ IF r.threw
         THEN Fail(handleKoraError(r.error))
         ELSE IF r.result.null
         THEN Fail(IF node = "KoraGate" THEN handleKoraError(NullTypeError)
                   ELSE NullTypeError)
         ELSE RouteDecision(r.result) /\ NextItem
    /\ UNCHANGED <<config, authCount, calls>>

\* KoraGate.execute: the top of one iteration, the parameters of item i read.
GateBegin ==
    /\ node = "KoraGate" /\ pc = "loop" /\ i < nItems
    /\ \E a \in Amounts, p \in BOOLEAN :
        /\ cur' = [NoItem EXCEPT !.item = i, !.amountCents = a, !.preCheck = p]
        /\ pc' = IF p THEN "budget" ELSE "authorize"
    /\ UNCHANGED <<config, i, approvedItems, deniedItems, insufficientItems,
                   output, error, authCount, calls>>

\* KoraGate.execute step 1: kora.checkBudget() is called and awaited.
GateBudgetSend ==
    /\ node = "KoraGate" /\ pc = "budget"
    /\ Sent("budget")
    /\ pc' = "awaitBudget"
    /\ UNCHANGED <<config, i, approvedItems, deniedItems, insufficientItems,
                   output, error, cur>>

\* GateBudget without the continue after the Insufficient push.
GateBudget_noContinue ==
    /\ node = "KoraGate" /\ pc = "awaitBudget"
    /\ \E b \in BudgetOutcomes, m \in Minimums :
        /\ cur' = [cur EXCEPT !.budget = b, !.minimumRequired = m]
        /\ IF b.kind = "throw"
             THEN Fail(handleKoraError(b.error))
           ELSE IF BudgetInsufficient(b, Threshold(m, cur.amountCents))
             THEN /\ insufficientItems' =
                        Append(insufficientItems, OutItem(i, "INSUFFICIENT", FALSE, ""))
                  /\ pc' = "authorize"
                  /\ UNCHANGED <<i, approvedItems, deniedItems, output, error>>
           ELSE /\ pc' = "authorize"
                /\ UNCHANGED <<i, approvedItems, deniedItems, insufficientItems,
                               output, error>>
    /\ UNCHANGED <<config, authCount, calls>>

\* GateBudget with a failed budget query folded into Insufficient.
GateBudget_foldInsufficient ==
    /\ node = "KoraGate" /\ pc = "awaitBudget"
    /\ \E b \in BudgetOutcomes, m \in Minimums :
        /\ cur' = [cur EXCEPT !.budget = b, !.minimumRequired = m]
        /\ IF b.kind = "throw" \/ BudgetInsufficient(b, Threshold(m, cur.amountCents))
             THEN /\ insufficientItems' =
                        Append(insufficientItems, OutItem(i, "INSUFFICIENT", FALSE, ""))
                  /\ NextItem
                  /\ UNCHANGED <<approvedItems, deniedItems>>
           ELSE /\ pc' = "authorize"
                /\ UNCHANGED <<i, approvedItems, deniedItems, insufficientItems,
                               output, error>>
    /\ UNCHANGED <<config, authCount, calls>>

\* KoraGate.execute step 1, resumed: the budget query is answered (or has
\* thrown) and the pre-check is made.
GateBudget ==
    /\ node = "KoraGate" /\ pc = "awaitBudget"
    /\ \E b \in BudgetOutcomes, m \in Minimums :
        /\ cur' = [cur EXCEPT !.budget = b, !.minimumRequired = m]
        /\ IF b.kind = "throw"
             THEN Fail(handleKoraError(b.error))
           ELSE IF BudgetInsufficient(b, Threshold(m, cur.amountCents))
             THEN /\ insufficientItems' =
                        Append(insufficientItems, OutItem(i, "INSUFFICIENT", FALSE, ""))
                  /\ NextItem
                  /\ UNCHANGED <<approvedItems, deniedItems>>
           ELSE /\ pc' = "authorize"
                /\ UNCHANGED <<i, approvedItems, deniedItems, insufficientItems,
                               output, error>>
    /\ UNCHANGED <<config, authCount, calls>>

\* KoraGate.execute step 2: authorizeSpend is called; its fetch goes out.
GateAuthorizeSend ==
    /\ node = "KoraGate" /\ pc = "authorize"
    /\ Sent("authorize")
    /\ pc' = "awaitAuthorize"
    /\ UNCHANGED <<config, i, approvedItems, deniedItems, insufficientItems,
                   output, error, cur>>

\* KoraGate.execute step 2, resumed by the answer to the fetch.
GateAuthorize ==
    /\ node = "KoraGate" /\ pc = "awaitAuthorize"
    /\ \E o \in HttpOutcomes : FetchAnswered(o)

\* KoraGate.execute step 2, resumed by the body: the item is routed.
GateAuthorizeBody ==
    /\ node = "KoraGate" /\ pc = "awaitBody"
    /\ BodyRead

\* KoraAuthorize.execute: the top of one iteration; authorizeSpend is called
\* and its fetch goes out.
AuthorizeSend ==
    /\ node = "KoraAuthorize" /\ pc = "loop" /\ i < nItems
    /\ \E a \in Amounts :
        cur' = [NoItem EXCEPT !.item = i, !.amountCents = a]
    /\ Sent("authorize")
    /\ pc' = "awaitAuthorize"
    /\ UNCHANGED <<config, i, approvedItems, deniedItems, insufficientItems,
                   output, error>>

\* KoraAuthorize.execute, resumed by the answer to the fetch.
AuthorizeItem ==
    /\ node = "KoraAuthorize" /\ pc = "awaitAuthorize"
    /\ \E o \in HttpOutcomes : FetchAnswered(o)

\* KoraAuthorize.execute, resumed by the body: the item is routed.
AuthorizeBody ==
    /\ node = "KoraAuthorize" /\ pc = "awaitBody"
    /\ BodyRead

\* The catch block of Kora.execute.
KoraCatch(e) ==
    IF continueOnFail
        THEN /\ deniedItems' = Append(deniedItems, OutItem(i, "absent", FALSE, e.message))
             /\ UNCHANGED approvedItems
             /\ NextItem
        ELSE Fail(KoraRethrow(e))

\* Kora.execute, operation "spend": doSpend is called; it throws on the
\* amount, or its request goes out.
KoraSpendSend ==
    /\ node = "Kora" /\ nodeOperation = "spend" /\ pc = "loop" /\ i < nItems
    /\ \E a \in Amounts :
        /\ cur' = [NoItem EXCEPT !.item = i, !.amountCents = a]
        /\ IF doSpend(a, NoCall).sent
             THEN /\ Sent("authorize")
                  /\ pc' = "awaitSpend"
                  /\ UNCHANGED <<i, approvedItems, deniedItems, output, error>>
             ELSE /\ KoraCatch(doSpend(a, NoCall).error)
                  /\ UNCHANGED <<authCount, calls>>
    /\ UNCHANGED <<config, insufficientItems>>

\* Kora.execute, operation "spend", resumed by the answer to the request.
KoraSpendItem ==
    /\ node = "Kora" /\ pc = "awaitSpend"
    /\ \E o \in HttpOutcomes :
        LET r == doSpend(cur.amountCents, o) IN
        /\ cur' = [cur EXCEPT !.auth = o]
        /\ IF ~r.threw
             THEN /\ IF r.result.decision = "APPROVED"
                       THEN /\ approvedItems' = Append(approvedItems,
                                    OutItem(i, r.result.decision, r.result.seal, ""))
                            /\ UNCHANGED deniedItems
                       ELSE /\ deniedItems' = Append(deniedItems,
                                    OutItem(i, r.result.decision, r.result.seal, ""))
                            /\ UNCHANGED approvedItems
                  /\ NextItem
             ELSE KoraCatch(r.error)
    /\ UNCHANGED <<config, insufficientItems, authCount, calls>>

\* doBudget on the answer to its request: httpRequest rejects on a network
\* failure and on a status outside 2xx, JSON.parse on a body that is not
\* JSON, data.daily on a body that is null.
doBudget(o) ==
    IF o.kind = "neterr" \/ o.status < 200 \/ o.status > 299
        THEN ThrewAfterSend(HttpRequestError(o))
    ELSE IF ~o.body.json THEN ThrewAfterSend(JsonSyntaxError)
    ELSE IF o.body.null THEN ThrewAfterSend(NullTypeError)
    ELSE Returned(o.body)

\* Kora.execute, operation "checkBudget": doBudget is called; its request
\* goes out.
KoraBudgetSend ==
    /\ node = "Kora" /\ nodeOperation = "checkBudget" /\ pc = "loop" /\ i < nItems
    /\ cur' = [NoItem EXCEPT !.item = i]
    /\ Sent("budget")
    /\ pc' = "awaitKoraBudget"
    /\ UNCHANGED <<config, i, approvedItems, deniedItems, insufficientItems,
                   output, error>>

\* Kora.execute, operation "checkBudget", resumed: the budget result goes on
\* approved.
KoraBudgetItem ==
    /\ node = "Kora" /\ pc = "awaitKoraBudget"
    /\ \E o \in HttpOutcomes :
        /\ cur' = [cur EXCEPT !.http = o]
        /\ IF ~doBudget(o).threw
             THEN /\ approvedItems' = Append(approvedItems, OutItem(i, "absent", FALSE, ""))
                  /\ UNCHANGED deniedItems
                  /\ NextItem
             ELSE KoraCatch(doBudget(o).error)
    /\ UNCHANGED <<config, insufficientItems, authCount, calls>>

\* doHealth on the answer to its request: it never throws; error is the
\* message of a health result that is not healthy ("" when healthy).
doHealth(o) ==
    IF o.kind = "neterr" \/ o.status < 200 \/ o.status > 299
        THEN [healthy |-> FALSE, error |-> HttpRequestError(o).message]
    ELSE IF ~o.body.json THEN [healthy |-> FALSE, error |-> JsonSyntaxError.message]
    ELSE IF o.body.null THEN [healthy |-> FALSE, error |-> NullTypeError.message]
    ELSE [healthy |-> TRUE, error |-> ""]

\* Kora.execute, operation "health": doHealth is called; its request goes out.
KoraHealthSend ==
    /\ node = "Kora" /\ nodeOperation = "health" /\ pc = "loop" /\ i < nItems
    /\ cur' = [NoItem EXCEPT !.item = i]
    /\ Sent("health")
    /\ pc' = "awaitHealth"
    /\ UNCHANGED <<config, i, approvedItems, deniedItems, insufficientItems,
                   output, error>>

\* Kora.execute, operation "health", resumed: the health result goes on
\* approved, healthy or not.
KoraHealthItem ==
    /\ node = "Kora" /\ pc = "awaitHealth"
    /\ \E o \in HttpOutcomes :
        /\ cur' = [cur EXCEPT !.http = o]
        /\ approvedItems' = Append(approvedItems,
                                   OutItem(i, "absent", FALSE, doHealth(o).error))
        /\ NextItem
    /\ UNCHANGED <<config, deniedItems, insufficientItems, authCount, calls>>

\* return [approvedItems, deniedItems, insufficientItems]
Return ==
    /\ pc = "loop" /\ i >= nItems
    /\ pc' = "returned"
    /\ output' = [delivered |-> TRUE, approved |-> approvedItems,
                  denied |-> deniedItems, insufficient |-> insufficientItems]
    /\ UNCHANGED <<config, i, approvedItems, deniedItems, insufficientItems,
                   error, cur, authCount, calls>>

Next ==
    \/ GateBegin
    \/ GateBudgetSend
    \/ GateBudget
    \/ GateAuthorizeSend
    \/ GateAuthorize
    \/ GateAuthorizeBody
    \/ AuthorizeSend
    \/ AuthorizeItem
    \/ AuthorizeBody
    \/ KoraSpendSend
    \/ KoraSpendItem
    \/ KoraBudgetSend
    \/ KoraBudgetItem
    \/ KoraHealthSend
    \/ KoraHealthItem
    \/ Return

Spec == Init /\ [][Next]_vars

----------------------------------------------------------------------------
(* Properties.  cur is the item of the latest iteration, so a state        *)
(* predicate on cur speaks of every item at the moment its iteration has   *)
(* acted; "failed" and "returned" are final.                               *)

SharedClientNode == node \in {"KoraGate", "KoraAuthorize"}

\* The invocation authorizes spends (every one but Check Budget and Health
\* of the Kora node).
Authorizing == node # "Kora" \/ nodeOperation = "spend"

OnSomeOutput(item) ==
    item \in ItemsOf(approvedItems) \cup ItemsOf(deniedItems) \cup ItemsOf(insufficientItems)

\* execute has thrown and returned nothing, and the item is on no output.
FatalFor(item) ==
    /\ pc = "failed"
    /\ error.isNodeOperationError
    /\ ~output.delivered
    /\ ~OnSomeOutput(item)

\* cur.auth is the outcome of the authorize call of the current item, once
\* execute has resumed and acted on it.
AuthAnswered == cur.auth.kind = "http"
AuthServerError == AuthAnswered /\ cur.auth.status >= 500
AuthNetworkFailure == cur.auth.kind = "neterr"

\* C1: in KoraGate and KoraAuthorize, an item whose authorize call answers
\* with a status >= 500 makes execute throw, and the item is on none of the
\* Approved, Denied and Insufficient outputs.
C1_ServerErrorIsFatal ==
    (SharedClientNode /\ AuthServerError) => FatalFor(cur.item)

C1_Witness ==
    /\ node = "KoraGate" /\ cur.item = 1 /\ cur.auth.kind = "http" /\ cur.auth.status = 503
    /\ pc = "failed" /\ Len(approvedItems) = 1

\* C2: in KoraGate and KoraAuthorize, an item whose authorize call fails at
\* the transport level (refused, timed out, name not resolved) makes execute
\* throw, and the item is on none of the outputs.
C2_NetworkFailureIsFatal ==
    (SharedClientNode /\ AuthNetworkFailure) => FatalFor(cur.item)

C2_Witness ==
    /\ node = "KoraAuthorize" /\ cur.auth.kind = "neterr" /\ cur.auth.code = "ENOTFOUND"
    /\ pc = "failed" /\ error.message = "fetch failed"

\* C3: in Kora.execute (spend) with continue-on-fail enabled, a server error
\* or a network failure of the authorize call still stops the workflow with
\* an error, and the item is on neither the Approved nor the Denied output.
C3_FailClosedNotSwitchable ==
    (node = "Kora" /\ continueOnFail /\ (AuthServerError \/ AuthNetworkFailure))
        => FatalFor(cur.item)

\* C4: an item is on the Approved output only if its authorize call was
\* answered with status 200 and a decision field equal to "APPROVED".
C4_ApprovedOnlyOn200Approved ==
    (Authorizing /\ cur.item \in ItemsOf(approvedItems))
        => /\ AuthAnswered
           /\ cur.auth.status = 200
           /\ cur.auth.body.json
           /\ cur.auth.body.decision = "APPROVED"

Unrecognized ==
    /\ AuthAnswered
    /\ cur.auth.status < 500
    /\ cur.auth.body.json
    /\ \/ cur.auth.body.decision \notin {"APPROVED", "DENIED"}
       \/ cur.auth.status = 409

\* C5: in KoraGate and KoraAuthorize, an authorize response that is not
\* recognized as approved or denied (another decision value, no decision
\* field, or status 409) makes execute throw; the item is on neither the
\* Denied nor the Approved output.
C5_UnrecognizedFailsClosed ==
    (SharedClientNode /\ Unrecognized) => FatalFor(cur.item)

ClientErrorStatuses == {400, 401, 403, 404, 429}

UnavailableMessages ==
    { "Kora unavailable (<status>). Workflow stopped. No authorization = no payment.",
      "Cannot reach Kora. Workflow stopped.",
      "Kora returned <status>. Workflow stopped - no authorization = no payment.",
      "Kora unavailable: <message>. No authorization = no payment." }

\* C6: in all three nodes, an authorize response with status 400, 401, 403,
\* 404 or 429 is reported as an error that is not the fail-closed Unavailable
\* error, and the item is on neither the Denied nor the Approved output.
C6_ClientErrorIsDistinctError ==
    (AuthAnswered /\ cur.auth.status \in ClientErrorStatuses)
        => /\ FatalFor(cur.item)
           /\ error.message \notin UnavailableMessages

\* C7: every item on the Approved output has a non-null seal.
C7_ApprovedHasSeal ==
    Authorizing => \A k \in 1..Len(approvedItems) : approvedItems[k].seal

PreChecked ==
    node = "KoraGate" /\ cur.preCheck /\ cur.budget.kind = "ok"

CurThreshold == Threshold(cur.minimumRequired, cur.amountCents)

\* The authorize step of the current item has been entered.
Proceeded ==
    \/ pc \in {"authorize", "awaitAuthorize", "awaitBody", "awaitSpend"}
    \/ cur.auth.kind # "none"

ShortCircuited(item) ==
    /\ item \in ItemsOf(insufficientItems)
    /\ item \notin ItemsOf(approvedItems) \cup ItemsOf(deniedItems)
    /\ authCount[item] = 0

\* C8: in KoraGate with pre-check, an item whose budget shows daily remaining
\* below the threshold, or spending not allowed, is on the Insufficient
\* output and no authorize request is sent for it, then or later.
C8_InsufficientSkipsAuthorize ==
    /\ (PreChecked /\ (cur.budget.remainingCents < CurThreshold \/ ~cur.budget.spendAllowed))
            => (ShortCircuited(cur.item) /\ ~Proceeded)
    /\ \A item \in ItemsOf(insufficientItems) : ShortCircuited(item)

C8_Witness ==
    /\ PreChecked /\ cur.budget.spendAllowed /\ cur.budget.remainingCents = 2
    /\ CurThreshold = 3 /\ cur.item = 1
    /\ pc = "returned" /\ nItems = 2 /\ authCount[0] = 0 /\ authCount[1] = 0
    /\ Len(output.insufficient) = 2

\* C9: in KoraGate with pre-check, an item whose budget snapshot has a status
\* other than active is on the Insufficient output and no authorize call is
\* issued for it, whatever the remaining amount.
C9_InactiveMandateIsInsufficient ==
    (PreChecked /\ cur.budget.status # "active")
        => (ShortCircuited(cur.item) /\ ~Proceeded)

\* C10: in KoraGate with pre-check, an active mandate and spending allowed,
\* the item proceeds to the authorize call if and only if the daily remaining
\* amount is at least the threshold.
C10_BoundaryInclusive ==
    (PreChecked /\ cur.budget.status = "active" /\ cur.budget.spendAllowed)
        => /\ (cur.budget.remainingCents >= CurThreshold)
                => (Proceeded /\ cur.item \notin ItemsOf(insufficientItems))
           /\ (cur.budget.remainingCents < CurThreshold)
                => (ShortCircuited(cur.item) /\ ~Proceeded)

C10_Witness ==
    /\ PreChecked /\ cur.budget.status = "active" /\ cur.budget.spendAllowed
    /\ cur.budget.remainingCents = 3 /\ cur.amountCents = 3 /\ cur.minimumRequired = 0
    /\ cur.auth.kind = "http" /\ authCount[cur.item] = 1

OutputArrays == <<approvedItems, deniedItems, insufficientItems>>

\* The number of output arrays that hold an entry of the item.
OutputsHolding(item) ==
    Cardinality({ c \in 1..3 : item \in ItemsOf(OutputArrays[c]) })

EntriesOf(item) ==
    Cardinality({ <<c, k>> \in (1..3) \X (1..MaxItems + 1) :
                    k <= Len(OutputArrays[c]) /\ OutputArrays[c][k].item = item })

\* C11: in KoraGate.execute every item ends in exactly one outcome: no item
\* is ever on two outputs; every item whose iteration has ended is on exactly
\* one output, once; a fatal error returns nothing; and a normal return
\* delivers exactly one entry per input item.
C11_ExactlyOneOutcome ==
    node = "KoraGate" =>
        /\ \A item \in 0..(MaxItems - 1) :
            /\ OutputsHolding(item) <= 1
            /\ EntriesOf(item) <= 1
            /\ (item < i) => EntriesOf(item) = 1
            /\ (item > i) => EntriesOf(item) = 0
        /\ (pc = "failed") => (~output.delivered /\ error.isNodeOperationError
                               /\ EntriesOf(i) = 0)
        /\ (pc = "returned") =>
            /\ output.delivered /\ error = NoError
            /\ Len(output.approved) + Len(output.denied) + Len(output.insufficient) = nItems
            /\ ItemsOf(output.approved) \cup ItemsOf(output.denied)
                    \cup ItemsOf(output.insufficient) = 0..(nItems - 1)

C11_Witness ==
    /\ node = "KoraGate" /\ pc = "returned" /\ nItems = 2
    /\ Len(output.approved) = 1 /\ Len(output.insufficient) = 1
    /\ output.insufficient[1].item = 0

\* C12: in one invocation of execute of any of the three nodes, at most one
\* authorize request is sent per input item, whatever the response or
\* failure.
C12_SingleAttempt ==
    /\ \A item \in 0..(MaxItems - 1) : authCount[item] <= 1
    /\ \A k, l \in 1..Len(calls) :
        (k # l /\ calls[k].op = "authorize" /\ calls[l].op = "authorize")
            => calls[k].item # calls[l].item

C12_Witness ==
    /\ pc = "failed" /\ node = "KoraAuthorize" /\ cur.item = 1
    /\ AuthNetworkFailure /\ authCount[0] = 1 /\ authCount[1] = 1

\* The current item ended in an Unavailable outcome: a server error or a
\* network failure of its authorize call or of its budget query.
CurUnavailable ==
    AuthServerError \/ AuthNetworkFailure \/ cur.budget.kind = "throw"

\* The error texts that say that no authorization means no payment and that
\* the workflow is stopped.  "Cannot reach Kora. Workflow stopped." is counted
\* in: its description carries "no authorization means no payment".
MessagesStatingNoAuthorization ==
    { "Kora unavailable (<status>). Workflow stopped. No authorization = no payment.",
      "Cannot reach Kora. Workflow stopped.",
      "Kora returned <status>. Workflow stopped - no authorization = no payment.",
      "Kora unavailable: <message>. No authorization = no payment." }

\* C19: every error raised for an Unavailable outcome (server error or any
\* network failure) carries a message stating that no authorization occurred
\* and that the workflow must not proceed with the payment.
C19_UnavailableMessageSaysStop ==
    (pc = "failed" /\ CurUnavailable)
        => error.message \in MessagesStatingNoAuthorization

\* C20: for every item with amountCents <= 0 no authorize request is sent and
\* the item is not on the Approved output, in all three nodes.
C20_NonPositiveAmountNotAuthorized ==
    (Authorizing /\ cur.item >= 0 /\ cur.amountCents <= 0)
        => /\ authCount[cur.item] = 0
           /\ ~Proceeded
           /\ cur.item \notin ItemsOf(approvedItems)

----------------------------------------------------------------------------
(* Text.  A JavaScript string is a sequence of one-character strings.      *)

\* The printable ASCII characters, in code order from 32 (space) to 126 (~);
\* codes 92 and 96 are written out by name.
Ascii ==
    <<
       " ", "!", "\"", "#", "$", "%", "&", "'", "(", ")", "*", "+",
       ",", "-", ".", "/", "0", "1", "2", "3", "4", "5", "6", "7",
       "8", "9", ":", ";", "<", "=", ">", "?", "@", "A", "B", "C",
       "D", "E", "F", "G", "H", "I", "J", "K", "L", "M", "N", "O",
       "P", "Q", "R", "S", "T", "U", "V", "W", "X", "Y", "Z", "[",
       "(backslash)", "]", "^", "_", "(backtick)", "a", "b", "c", "d", "e", "f", "g",
       "h", "i", "j", "k", "l", "m", "n", "o", "p", "q", "r", "s",
       "t", "u", "v", "w", "x", "y", "z", "{", "|", "}", "~"
    >>

AsciiChars == { Ascii[k] : k \in 1..Len(Ascii) }

IsAscii(c) == c \in AsciiChars

\* String.fromCharCode(n): the character of a UTF-16 code unit.  A code unit
\* outside printable ASCII is written U+n, n its code in decimal.
fromCharCode(n) == IF n \in 32..126 THEN Ascii[n - 31] ELSE "U+" \o ToString(n)

\* c.charCodeAt(0): the UTF-16 code unit of a character.
Code(c) ==
    IF IsAscii(c) THEN 31 + (CHOOSE k \in 1..Len(Ascii) : Ascii[k] = c)
    ELSE CHOOSE n \in (0..31) \cup (127..65535) : fromCharCode(n) = c

\* String(n) of an integer, as a template literal ${n} prints it.
RECURSIVE DecimalDigits(_)
DecimalDigits(n) ==
    IF n < 10 THEN <<Ascii[17 + n]>>
    ELSE DecimalDigits(n \div 10) \o <<Ascii[17 + (n % 10)]>>

Decimal(n) == IF n < 0 THEN <<"-">> \o DecimalDigits(0 - n) ELSE DecimalDigits(n)

\* a < b as JavaScript compares strings: by code unit, a proper prefix first.
RECURSIVE StrLess(_, _)
StrLess(a, b) ==
    IF b = <<>> THEN FALSE
    ELSE IF a = <<>> THEN TRUE
    ELSE IF Head(a) = Head(b) THEN StrLess(Tail(a), Tail(b))
    ELSE Code(Head(a)) < Code(Head(b))

\* The variables of the execute loops, at rest while a pure function is tested.
execVars == <<node, nodeOperation, continueOnFail, nItems, i, pc, approvedItems, deniedItems,
              insufficientItems, output, error, cur, authCount, calls>>

ExecIdle ==
    /\ node = "KoraGate"
    /\ nodeOperation = "none"
    /\ continueOnFail = FALSE
    /\ nItems = 0
    /\ i = 0
    /\ pc = "idle"
    /\ approvedItems = <<>>
    /\ deniedItems = <<>>
    /\ insufficientItems = <<>>
    /\ output = NoOutput
    /\ error = NoError
    /\ cur = NoItem
    /\ authCount = [k \in 0..(MaxItems - 1) |-> 0]
    /\ calls = <<>>

----------------------------------------------------------------------------
(* deriveIntentId: src/shared/koraClient.ts and                            *)
(* src/nodes/Kora/transport/koraClient.ts.  The hash (UUID v5, SHA-256) is *)
(* taken as collision-free: an intent id is its algorithm and its input.   *)

KORA_N8N_NAMESPACE == <<"b", "7", "e", "2", "3", "e", "c", "2", "-", "9", "c", "4", "f", "-", "4", "a", "1", "d", "-", "8", "e", "6", "b", "-", "f", "3", "a", "5", "d", "7", "c", "9", "e", "1", "b", "0">>

IntentId(alg, ns, input) == [alg |-> alg, ns |-> ns, input |-> input]
NoIntentId == IntentId("", <<>>, <<>>)

\* deriveIntentId of the shared client with the operation left out of the seed.
deriveIntentId_noOperation(executionId, itemIndex, operation) ==
    IntentId("uuidv5", KORA_N8N_NAMESPACE,
             executionId \o <<":">> \o Decimal(itemIndex))

\* Shared client: uuidv5(executionId:itemIndex:operation, namespace).
deriveIntentId(executionId, itemIndex, operation) ==
    IntentId("uuidv5", KORA_N8N_NAMESPACE,
             executionId \o <<":">> \o Decimal(itemIndex) \o <<":">> \o operation)

\* Kora node transport: sha256(kora:executionId:itemIndex:operation),
\* the first 32 hex digits grouped 8-4-4-4-12.
deriveIntentIdKora(executionId, itemIndex, operation) ==
    IntentId("sha256", <<>>,
             <<"k", "o", "r", "a", ":">> \o executionId \o <<":">> \o Decimal(itemIndex)
                \o <<":">> \o operation)

\* Largest item index given to deriveIntentId.
MaxItemIndex == 11

OpGate == <<"g", "a", "t", "e">>
OpAuthorize == <<"a", "u", "t", "h", "o", "r", "i", "z", "e">>

ExecutionIds == { <<"7">>, <<"7", "1">>, <<"7", ":", "1">> }
Operations == { OpGate, OpAuthorize, <<"1", ":", "g", "a", "t", "e">> }

Triples ==
    [executionId : ExecutionIds, itemIndex : 0..MaxItemIndex, operation : Operations]

DeriveBy(impl, t) ==
    IF impl = "shared"
        THEN deriveIntentId(t.executionId, t.itemIndex, t.operation)
        ELSE deriveIntentIdKora(t.executionId, t.itemIndex, t.operation)

InitIntent ==
    /\ ExecIdle
    /\ lab \in [tag : {"intent"}, impl : {"shared", "transport"}, a : Triples,
                b : Triples, ida : {NoIntentId}, idb : {NoIntentId}, done : {FALSE}]

\* deriveIntentId applied to the two triples.
DeriveIntentIds ==
    /\ lab.tag = "intent" /\ ~lab.done
    /\ lab' = [lab EXCEPT !.ida = DeriveBy(lab.impl, lab.a),
                          !.idb = DeriveBy(lab.impl, lab.b),
                          !.done = TRUE]
    /\ UNCHANGED execVars

NextIntent == DeriveIntentIds

SpecIntent == InitIntent /\ [][NextIntent]_vars

DifferInExactlyOne(a, b) ==
    Cardinality({ f \in {"executionId", "itemIndex", "operation"} : a[f] # b[f] }) = 1

\* C14: changing exactly one of executionId, itemIndex and operation, the
\* other two held fixed, changes the intent id that deriveIntentId derives
\* (the hash taken as collision-free), in both implementations.
C14_OneInputChangesIntentId ==
    (lab.tag = "intent" /\ lab.done /\ DifferInExactlyOne(lab.a, lab.b))
        => lab.ida # lab.idb

C14_Witness ==
    /\ lab.tag = "intent" /\ lab.done /\ lab.impl = "shared"
    /\ lab.a.executionId = lab.b.executionId /\ lab.a.operation = lab.b.operation
    /\ lab.a.itemIndex = 1 /\ lab.b.itemIndex = 10
    /\ lab.ida # lab.idb /\ lab.ida # NoIntentId

----------------------------------------------------------------------------
(* JavaScript values and JSON.  A value is a record of its type, its text  *)
(* (strings), its number (in tenths, so that 2.5 is 25) and its children   *)
(* (array elements, or the properties of an object in the order in which   *)
(* the engine enumerates them).                                            *)

JVal(t, s, n, kids) == [t |-> t, s |-> s, n |-> n, kids |-> kids]

JNull == JVal("null", <<>>, 0, <<>>)
JUndefined == JVal("undefined", <<>>, 0, <<>>)
JNaN == JVal("NaN", <<>>, 0, <<>>)
JBool(b) == JVal("boolean", <<>>, IF b THEN 1 ELSE 0, <<>>)
JNumber(tenths) == JVal("number", <<>>, tenths, <<>>)
JInt(n) == JNumber(10 * n)
JString(s) == JVal("string", s, 0, <<>>)
JArray(items) == JVal("array", <<>>, 0, items)
JObject(props) == JVal("object", <<>>, 0, props)

Prop(k, v) == [k |-> k, v |-> v]

IsDigit(c) == c \in {"0", "1", "2", "3", "4", "5", "6", "7", "8", "9"}

\* The largest array index, 2^32 - 2, in decimal.
MaxArrayIndexText == <<"4", "2", "9", "4", "9", "6", "7", "2", "9", "4">>

\* a < b for two decimal numerals without leading zeros.
NumeralLess(a, b) == Len(a) < Len(b) \/ (Len(a) = Len(b) /\ StrLess(a, b))

\* A property key that is a canonical array index ("0", "9", "10", not "01",
\* at most 4294967294): the engine enumerates such keys first, in ascending
\* numeric order; every other string key keeps its insertion order.
IsArrayIndex(k) ==
    /\ Len(k) > 0
    /\ \A j \in 1..Len(k) : IsDigit(k[j])
    /\ (Len(k) = 1 \/ k[1] # "0")
    /\ ~NumeralLess(MaxArrayIndexText, k)

\* The key of the prototype accessor of Object.prototype.
ProtoKey == <<"_", "_", "p", "r", "o", "t", "o", "_", "_">>

HasKey(props, k) == \E j \in 1..Len(props) : props[j].k = k

\* obj[k] = v on the ordered own properties of an object.  Without an own
\* property "__proto__", obj["__proto__"] = v runs the inherited setter, which
\* sets or ignores the prototype and creates no own property.
SetProp(props, k, v) ==
    IF HasKey(props, k)
    THEN [j \in 1..Len(props) |-> IF props[j].k = k THEN Prop(k, v) ELSE props[j]]
    ELSE IF k = ProtoKey THEN props
    ELSE IF IsArrayIndex(k)
    THEN LET before == Cardinality({ j \in 1..Len(props) :
                           /\ IsArrayIndex(props[j].k)
                           /\ NumeralLess(props[j].k, k) })
         IN  SubSeq(props, 1, before) \o <<Prop(k, v)>>
                 \o SubSeq(props, before + 1, Len(props))
    ELSE Append(props, Prop(k, v))

RECURSIVE AssignAll(_, _)
AssignAll(props, pairs) ==
    IF pairs = <<>> THEN props
    ELSE AssignAll(SetProp(props, Head(pairs).k, Head(pairs).v), Tail(pairs))

\* An object built by assigning the pairs in the given (insertion) order.
ObjectLiteral(pairs) == JObject(AssignAll(<<>>, pairs))

ObjectKeys(obj) == [j \in 1..Len(obj.kids) |-> obj.kids[j].k]

GetProp(obj, k) == obj.kids[CHOOSE j \in 1..Len(obj.kids) : obj.kids[j].k = k].v

RECURSIVE InsertSorted(_, _)
InsertSorted(x, sorted) ==
    IF sorted = <<>> THEN <<x>>
    ELSE IF StrLess(x, Head(sorted)) THEN <<x>> \o sorted
    ELSE <<Head(sorted)>> \o InsertSorted(x, Tail(sorted))

\* Array.prototype.sort() with the default comparison, on strings.
RECURSIVE SortStrings(_)
SortStrings(keys) ==
    IF keys = <<>> THEN <<>>
    ELSE InsertSorted(Head(keys), SortStrings(Tail(keys)))

RECURSIVE sortKeys_unsorted(_)
sortKeys_unsorted(obj) ==
    IF obj.t \in {"null", "undefined"} THEN obj
    ELSE IF obj.t = "array"
    THEN JArray([j \in 1..Len(obj.kids) |-> sortKeys_unsorted(obj.kids[j])])
    ELSE IF obj.t # "object" THEN obj
    ELSE LET keys == ObjectKeys(obj)
         IN  ObjectLiteral([j \in 1..Len(keys) |->
                 Prop(keys[j], sortKeys_unsorted(GetProp(obj, keys[j])))])

RECURSIVE sortKeys(_)
sortKeys(obj) ==
    IF obj.t \in {"null", "undefined"} THEN obj
    ELSE IF obj.t = "array"
    THEN JArray([j \in 1..Len(obj.kids) |-> sortKeys(obj.kids[j])])
    ELSE IF obj.t # "object" THEN obj
    ELSE LET keys == SortStrings(ObjectKeys(obj))
         IN  ObjectLiteral([j \in 1..Len(keys) |->
                 Prop(keys[j], sortKeys(GetProp(obj, keys[j])))])

RECURSIVE Join(_, _)
Join(parts, sep) ==
    IF parts = <<>> THEN <<>>
    ELSE IF Len(parts) = 1 THEN parts[1]
    ELSE LET half == Len(parts) \div 2
         IN  Join(SubSeq(parts, 1, half), sep) \o sep
                 \o Join(SubSeq(parts, half + 1, Len(parts)), sep)

HexDigits == <<"0", "1", "2", "3", "4", "5", "6", "7", "8", "9", "a", "b", "c", "d", "e", "f">>

\* The escape (backslash)uXXXX of a code unit.
UnicodeEscape(n) ==
    <<"(backslash)", "u", HexDigits[(n \div 4096) + 1], HexDigits[((n \div 256) % 16) + 1],
      HexDigits[((n \div 16) % 16) + 1], HexDigits[(n % 16) + 1]>>

\* The character s[j] is a surrogate with no partner beside it.
LoneSurrogate(s, j) ==
    LET n == Code(s[j])
    IN  \/ /\ n \in 55296..56319
           /\ ~(j < Len(s) /\ ~IsAscii(s[j + 1]) /\ Code(s[j + 1]) \in 56320..57343)
        \/ /\ n \in 56320..57343
           /\ ~(j > 1 /\ ~IsAscii(s[j - 1]) /\ Code(s[j - 1]) \in 55296..56319)

\* QuoteJSONString on one character: the quote, the backslash, the control
\* characters and the lone surrogates are escaped.
EscapeChar(s, j) ==
    LET c == s[j]
    IN  IF c = "\"" THEN <<"(backslash)", "\"">>
        ELSE IF c = "(backslash)" THEN <<"(backslash)", "(backslash)">>
        ELSE IF IsAscii(c) THEN <<c>>
        ELSE LET n == Code(c)
             IN  IF n = 8 THEN <<"(backslash)", "b">>
                 ELSE IF n = 9 THEN <<"(backslash)", "t">>
                 ELSE IF n = 10 THEN <<"(backslash)", "n">>
                 ELSE IF n = 12 THEN <<"(backslash)", "f">>
                 ELSE IF n = 13 THEN <<"(backslash)", "r">>
                 ELSE IF n < 32 \/ LoneSurrogate(s, j) THEN UnicodeEscape(n)
                 ELSE <<c>>

Quote(s) == <<"\"">> \o Join([j \in 1..Len(s) |-> EscapeChar(s, j)], <<>>) \o <<"\"">>

NumberText(tenths) ==
    IF tenths % 10 = 0 THEN Decimal(tenths \div 10)
    ELSE LET abs == IF tenths < 0 THEN 0 - tenths ELSE tenths
         IN  (IF tenths < 0 THEN <<"-">> ELSE <<>>)
                 \o DecimalDigits(abs \div 10) \o <<".">> \o DecimalDigits(abs % 10)

\* SerializeJSONProperty of JSON.stringify with no indentation, on a value
\* that is not undefined: a property whose value is undefined is left out,
\* undefined in an array and NaN are written null.
RECURSIVE SerializeJSON(_)
SerializeJSON(v) ==
    CASE v.t \in {"null", "NaN", "undefined"} -> <<"n", "u", "l", "l">>
      [] v.t = "boolean" -> IF v.n = 1 THEN <<"t", "r", "u", "e">> ELSE <<"f", "a", "l", "s", "e">>
      [] v.t = "number" -> NumberText(v.n)
      [] v.t = "string" -> Quote(v.s)
      [] v.t = "array" ->
            <<"[">> \o Join([j \in 1..Len(v.kids) |-> SerializeJSON(v.kids[j])], <<",">>)
                \o <<"]">>
      [] v.t = "object" ->
            LET kept == SelectSeq(v.kids, LAMBDA p : p.v.t # "undefined")
            IN  <<"{">> \o Join([j \in 1..Len(kept) |->
                                Quote(kept[j].k) \o <<":">> \o SerializeJSON(kept[j].v)],
                                <<",">>)
                    \o <<"}">>

\* What JSON.stringify(undefined) returns: undefined, which is no text.
UndefinedText == <<"(undefined)">>

\* JSON.stringify(v)
JSONstringify(v) == IF v.t = "undefined" THEN UndefinedText ELSE SerializeJSON(v)

canonicalize(obj) == JSONstringify(sortKeys(obj))

----------------------------------------------------------------------------
(* canonicalize on mappings built in different insertion orders.           *)

MaxKeys == 3

\* Key alphabets; a mapping of the bench uses the first MaxKeys of one row.
KeyTables ==
    << << <<"b">>, <<"a">>, <<"c">>, <<"d">>, <<"e">> >>,
       << <<"1", "0">>, <<"9">>, <<"a">>, <<"1">>, <<"b">> >>,
       << <<"a">>, <<"a", "b">>, <<"B">>, <<"_">>, <<"a", "a">> >>,
       << <<"4", "2", "9", "4", "9", "6", "7", "2", "9", "5">>, <<"7">>, <<"$">>,
          <<"4", "2", "9", "4", "9", "6", "7", "2", "9", "4">>, <<"z">> >> >>

LeafValues == << JInt(1), JString(<<"x">>), JNull, JBool(TRUE), JInt(-3) >>

Perms(n) == { p \in [1..n -> 1..n] : \A x, y \in 1..n : p[x] = p[y] => x = y }

IdPerm(n) == [j \in 1..n |-> j]

\* The nested mapping: MaxKeys leaves, inserted in the order pin.
InnerMapping(keys, pin) ==
    ObjectLiteral([j \in 1..MaxKeys |-> Prop(keys[pin[j]], LeafValues[pin[j]])])

\* The value under the k-th key of the outer mapping: a mapping, an array
\* holding a mapping, then leaves.
OuterValue(k, inner) ==
    IF k = 1 THEN inner
    ELSE IF k = 2 THEN JArray(<<inner, JInt(2), JString(<<"y">>)>>)
    ELSE LeafValues[k]

\* The same content for every (pout, pin); only the insertion orders differ.
BuildMapping(keys, pout, pin) ==
    ObjectLiteral([j \in 1..MaxKeys |->
        Prop(keys[pout[j]], OuterValue(pout[j], InnerMapping(keys, pin)))])

NoText == <<>>

InitCanon ==
    /\ ExecIdle
    /\ lab \in [tag : {"canon"}, table : 1..Len(KeyTables), pout : Perms(MaxKeys),
                pin : Perms(MaxKeys), outa : {NoText}, outb : {NoText},
                done : {FALSE}]

\* canonicalize applied to the mapping built in key-table order and to the
\* same mapping built in the orders pout (outer) and pin (nested).
Canonicalize ==
    /\ lab.tag = "canon" /\ ~lab.done
    /\ LET keys == KeyTables[lab.table]
       IN  lab' = [lab EXCEPT
               !.outa = canonicalize(BuildMapping(keys, IdPerm(MaxKeys), IdPerm(MaxKeys))),
               !.outb = canonicalize(BuildMapping(keys, lab.pout, lab.pin)),
               !.done = TRUE]
    /\ UNCHANGED execVars

NextCanon == Canonicalize

SpecCanon == InitCanon /\ [][NextCanon]_vars

\* C18: two mappings with the same keys and values at every nesting level,
\* built with different key insertion orders (at the top level, in a nested
\* mapping and in a mapping inside an array), canonicalize to the same string.
C18_InsertionOrderIrrelevant ==
    (lab.tag = "canon" /\ lab.done) => lab.outa = lab.outb

C18_Witness ==
    /\ lab.tag = "canon" /\ lab.done /\ lab.table = 1
    /\ lab.pout = <<3, 1, 2>> /\ lab.pin = <<2, 3, 1>>
    /\ lab.outa = lab.outb
    /\ lab.outa = <<"{", "\"", "a", "\"", ":", "[", "{", "\"", "a", "\"", ":", "\"", "x", "\"", ",", "\"", "b", "\"", ":", "1", ",", "\"", "c", "\"", ":", "n", "u", "l", "l", "}", ",", "2", ",", "\"", "y", "\"", "]", ",", "\"", "b", "\"", ":", "{", "\"", "a", "\"", ":", "\"", "x", "\"", ",", "\"", "b", "\"", ":", "1", ",", "\"", "c", "\"", ":", "n", "u", "l", "l", "}", ",", "\"", "c", "\"", ":", "n", "u", "l", "l", "}">>

----------------------------------------------------------------------------
(* The authorize request: doSpend (Kora node) and authorizeSpend (shared   *)
(* client).  An Ed25519 signature is deterministic and is taken as         *)
(* identifying the payload and the key it was made from.                   *)

\* The Ed25519 signature of a payload under the key of a seed, in base64.
Ed25519(payload, seed) == <<"e", "d", "2", "5", "5", "1", "9", "(">> \o seed \o <<",">> \o payload \o <<")">>

\* Buffer.from(payload, 'utf-8') on a payload that is not a string.
InvalidArgType ==
    JsError("ERR_INVALID_ARG_TYPE", "", 0, 0, 0, FALSE,
            "The first argument must be of type string or an instance of Buffer, ArrayBuffer, or Array or an Array-like Object. Received undefined")

\* signPayload: the signature, or the TypeError thrown for the payload
\* undefined (what canonicalize returns for undefined).
signPayload(payload, seed) ==
    IF payload = UndefinedText
    THEN [threw |-> TRUE, error |-> InvalidArgType, signature |-> <<>>]
    ELSE [threw |-> FALSE, error |-> NoError, signature |-> Ed25519(payload, seed)]

\* The text of an intent id (the hash taken as collision-free).
IntentIdText(id) ==
    (IF id.alg = "uuidv5" THEN <<"u", "u", "i", "d", "v", "5", "(">> ELSE <<"s", "h", "a", "2", "5", "6", "(">>)
        \o id.ns \o <<",">> \o id.input \o <<")">>

\* The characters with a one-character upper case, by the case mappings of
\* Unicode 17: <<first, last, step, upper>> stands for the code points
\* first, first + step, .., last, whose upper cases are upper,
\* upper + step, ...
UpperRanges ==
    {
      <<97, 122, 1, 65>>, <<181, 181, 1, 924>>, <<224, 246, 1, 192>>,
      <<248, 254, 1, 216>>, <<255, 255, 1, 376>>, <<257, 303, 2, 256>>,
      <<305, 305, 1, 73>>, <<307, 311, 2, 306>>, <<314, 328, 2, 313>>,
      <<331, 375, 2, 330>>, <<378, 382, 2, 377>>, <<383, 383, 1, 83>>,
      <<384, 384, 1, 579>>, <<387, 389, 2, 386>>, <<392, 392, 1, 391>>,
      <<396, 396, 1, 395>>, <<402, 402, 1, 401>>, <<405, 405, 1, 502>>,
      <<409, 409, 1, 408>>, <<410, 410, 1, 573>>, <<411, 411, 1, 42972>>,
      <<414, 414, 1, 544>>, <<417, 421, 2, 416>>, <<424, 424, 1, 423>>,
      <<429, 429, 1, 428>>, <<432, 432, 1, 431>>, <<436, 438, 2, 435>>,
      <<441, 441, 1, 440>>, <<445, 445, 1, 444>>, <<447, 447, 1, 503>>,
      <<453, 453, 1, 452>>, <<454, 454, 1, 452>>, <<456, 456, 1, 455>>,
      <<457, 457, 1, 455>>, <<459, 459, 1, 458>>, <<460, 460, 1, 458>>,
      <<462, 476, 2, 461>>, <<477, 477, 1, 398>>, <<479, 495, 2, 478>>,
      <<498, 498, 1, 497>>, <<499, 499, 1, 497>>, <<501, 501, 1, 500>>,
      <<505, 543, 2, 504>>, <<547, 563, 2, 546>>, <<572, 572, 1, 571>>,
      <<575, 576, 1, 11390>>, <<578, 578, 1, 577>>, <<583, 591, 2, 582>>,
      <<592, 592, 1, 11375>>, <<593, 593, 1, 11373>>,
      <<594, 594, 1, 11376>>, <<595, 595, 1, 385>>, <<596, 596, 1, 390>>,
      <<598, 599, 1, 393>>, <<601, 601, 1, 399>>, <<603, 603, 1, 400>>,
      <<604, 604, 1, 42923>>, <<608, 608, 1, 403>>, <<609, 609, 1, 42924>>,
      <<611, 611, 1, 404>>, <<612, 612, 1, 42955>>, <<613, 613, 1, 42893>>,
      <<614, 614, 1, 42922>>, <<616, 616, 1, 407>>, <<617, 617, 1, 406>>,
      <<618, 618, 1, 42926>>, <<619, 619, 1, 11362>>,
      <<620, 620, 1, 42925>>, <<623, 623, 1, 412>>, <<625, 625, 1, 11374>>,
      <<626, 626, 1, 413>>, <<629, 629, 1, 415>>, <<637, 637, 1, 11364>>,
      <<640, 640, 1, 422>>, <<642, 642, 1, 42949>>, <<643, 643, 1, 425>>,
      <<647, 647, 1, 42929>>, <<648, 648, 1, 430>>, <<649, 649, 1, 580>>,
      <<650, 651, 1, 433>>, <<652, 652, 1, 581>>, <<658, 658, 1, 439>>,
      <<669, 669, 1, 42930>>, <<670, 670, 1, 42928>>, <<837, 837, 1, 921>>,
      <<881, 883, 2, 880>>, <<887, 887, 1, 886>>, <<891, 893, 1, 1021>>,
      <<940, 940, 1, 902>>, <<941, 943, 1, 904>>, <<945, 961, 1, 913>>,
      <<962, 962, 1, 931>>, <<963, 971, 1, 931>>, <<972, 972, 1, 908>>,
      <<973, 974, 1, 910>>, <<976, 976, 1, 914>>, <<977, 977, 1, 920>>,
      <<981, 981, 1, 934>>, <<982, 982, 1, 928>>, <<983, 983, 1, 975>>,
      <<985, 1007, 2, 984>>, <<1008, 1008, 1, 922>>, <<1009, 1009, 1, 929>>,
      <<1010, 1010, 1, 1017>>, <<1011, 1011, 1, 895>>,
      <<1013, 1013, 1, 917>>, <<1016, 1016, 1, 1015>>,
      <<1019, 1019, 1, 1018>>, <<1072, 1103, 1, 1040>>,
      <<1104, 1119, 1, 1024>>, <<1121, 1153, 2, 1120>>,
      <<1163, 1215, 2, 1162>>, <<1218, 1230, 2, 1217>>,
      <<1231, 1231, 1, 1216>>, <<1233, 1327, 2, 1232>>,
      <<1377, 1414, 1, 1329>>, <<4304, 4346, 1, 7312>>,
      <<4349, 4351, 1, 7357>>, <<5112, 5117, 1, 5104>>,
      <<7296, 7296, 1, 1042>>, <<7297, 7297, 1, 1044>>,
      <<7298, 7298, 1, 1054>>, <<7299, 7300, 1, 1057>>,
      <<7301, 7301, 1, 1058>>, <<7302, 7302, 1, 1066>>,
      <<7303, 7303, 1, 1122>>, <<7304, 7304, 1, 42570>>,
      <<7306, 7306, 1, 7305>>, <<7545, 7545, 1, 42877>>,
      <<7549, 7549, 1, 11363>>, <<7566, 7566, 1, 42950>>,
      <<7681, 7829, 2, 7680>>, <<7835, 7835, 1, 7776>>,
      <<7841, 7935, 2, 7840>>, <<7936, 7943, 1, 7944>>,
      <<7952, 7957, 1, 7960>>, <<7968, 7975, 1, 7976>>,
      <<7984, 7991, 1, 7992>>, <<8000, 8005, 1, 8008>>,
      <<8017, 8023, 2, 8025>>, <<8032, 8039, 1, 8040>>,
      <<8048, 8049, 1, 8122>>, <<8050, 8053, 1, 8136>>,
      <<8054, 8055, 1, 8154>>, <<8056, 8057, 1, 8184>>,
      <<8058, 8059, 1, 8170>>, <<8060, 8061, 1, 8186>>,
      <<8112, 8113, 1, 8120>>, <<8126, 8126, 1, 921>>,
      <<8144, 8145, 1, 8152>>, <<8160, 8161, 1, 8168>>,
      <<8165, 8165, 1, 8172>>, <<8526, 8526, 1, 8498>>,
      <<8560, 8575, 1, 8544>>, <<8580, 8580, 1, 8579>>,
      <<9424, 9449, 1, 9398>>, <<11312, 11359, 1, 11264>>,
      <<11361, 11361, 1, 11360>>, <<11365, 11365, 1, 570>>,
      <<11366, 11366, 1, 574>>, <<11368, 11372, 2, 11367>>,
      <<11379, 11379, 1, 11378>>, <<11382, 11382, 1, 11381>>,
      <<11393, 11491, 2, 11392>>, <<11500, 11502, 2, 11499>>,
      <<11507, 11507, 1, 11506>>, <<11520, 11557, 1, 4256>>,
      <<11559, 11559, 1, 4295>>, <<11565, 11565, 1, 4301>>,
      <<42561, 42605, 2, 42560>>, <<42625, 42651, 2, 42624>>,
      <<42787, 42799, 2, 42786>>, <<42803, 42863, 2, 42802>>,
      <<42874, 42876, 2, 42873>>, <<42879, 42887, 2, 42878>>,
      <<42892, 42892, 1, 42891>>, <<42897, 42899, 2, 42896>>,
      <<42900, 42900, 1, 42948>>, <<42903, 42921, 2, 42902>>,
      <<42933, 42947, 2, 42932>>, <<42952, 42954, 2, 42951>>,
      <<42957, 42971, 2, 42956>>, <<42998, 42998, 1, 42997>>,
      <<43859, 43859, 1, 42931>>, <<43888, 43967, 1, 5024>>,
      <<65345, 65370, 1, 65313>>, <<66600, 66639, 1, 66560>>,
      <<66776, 66811, 1, 66736>>, <<66967, 67003, 2, 66928>>,
      <<66968, 66976, 2, 66929>>, <<66980, 66992, 2, 66941>>,
      <<66996, 67000, 2, 66957>>, <<67004, 67004, 1, 66965>>,
      <<68800, 68850, 1, 68736>>, <<68976, 68997, 1, 68944>>,
      <<71872, 71903, 1, 71840>>, <<93792, 93823, 1, 93760>>,
      <<93883, 93907, 1, 93856>>, <<125218, 125251, 1, 125184>>
    }

\* The characters whose upper case is more than one character (the
\* unconditional mappings of SpecialCasing.txt): <<code point, upper case>>.
UpperSpecial ==
    {
      <<223, <<83, 83>>>>, <<329, <<700, 78>>>>, <<496, <<74, 780>>>>,
      <<912, <<921, 776, 769>>>>, <<944, <<933, 776, 769>>>>,
      <<1415, <<1333, 1362>>>>, <<7830, <<72, 817>>>>,
      <<7831, <<84, 776>>>>, <<7832, <<87, 778>>>>, <<7833, <<89, 778>>>>,
      <<7834, <<65, 702>>>>, <<8016, <<933, 787>>>>,
      <<8018, <<933, 787, 768>>>>, <<8020, <<933, 787, 769>>>>,
      <<8022, <<933, 787, 834>>>>, <<8064, <<7944, 921>>>>,
      <<8065, <<7945, 921>>>>, <<8066, <<7946, 921>>>>,
      <<8067, <<7947, 921>>>>, <<8068, <<7948, 921>>>>,
      <<8069, <<7949, 921>>>>, <<8070, <<7950, 921>>>>,
      <<8071, <<7951, 921>>>>, <<8072, <<7944, 921>>>>,
      <<8073, <<7945, 921>>>>, <<8074, <<7946, 921>>>>,
      <<8075, <<7947, 921>>>>, <<8076, <<7948, 921>>>>,
      <<8077, <<7949, 921>>>>, <<8078, <<7950, 921>>>>,
      <<8079, <<7951, 921>>>>, <<8080, <<7976, 921>>>>,
      <<8081, <<7977, 921>>>>, <<8082, <<7978, 921>>>>,
      <<8083, <<7979, 921>>>>, <<8084, <<7980, 921>>>>,
      <<8085, <<7981, 921>>>>, <<8086, <<7982, 921>>>>,
      <<8087, <<7983, 921>>>>, <<8088, <<7976, 921>>>>,
      <<8089, <<7977, 921>>>>, <<8090, <<7978, 921>>>>,
      <<8091, <<7979, 921>>>>, <<8092, <<7980, 921>>>>,
      <<8093, <<7981, 921>>>>, <<8094, <<7982, 921>>>>,
      <<8095, <<7983, 921>>>>, <<8096, <<8040, 921>>>>,
      <<8097, <<8041, 921>>>>, <<8098, <<8042, 921>>>>,
      <<8099, <<8043, 921>>>>, <<8100, <<8044, 921>>>>,
      <<8101, <<8045, 921>>>>, <<8102, <<8046, 921>>>>,
      <<8103, <<8047, 921>>>>, <<8104, <<8040, 921>>>>,
      <<8105, <<8041, 921>>>>, <<8106, <<8042, 921>>>>,
      <<8107, <<8043, 921>>>>, <<8108, <<8044, 921>>>>,
      <<8109, <<8045, 921>>>>, <<8110, <<8046, 921>>>>,
      <<8111, <<8047, 921>>>>, <<8114, <<8122, 921>>>>,
      <<8115, <<913, 921>>>>, <<8116, <<902, 921>>>>,
      <<8118, <<913, 834>>>>, <<8119, <<913, 834, 921>>>>,
      <<8124, <<913, 921>>>>, <<8130, <<8138, 921>>>>,
      <<8131, <<919, 921>>>>, <<8132, <<905, 921>>>>,
      <<8134, <<919, 834>>>>, <<8135, <<919, 834, 921>>>>,
      <<8140, <<919, 921>>>>, <<8146, <<921, 776, 768>>>>,
      <<8147, <<921, 776, 769>>>>, <<8150, <<921, 834>>>>,
      <<8151, <<921, 776, 834>>>>, <<8162, <<933, 776, 768>>>>,
      <<8163, <<933, 776, 769>>>>, <<8164, <<929, 787>>>>,
      <<8166, <<933, 834>>>>, <<8167, <<933, 776, 834>>>>,
      <<8178, <<8186, 921>>>>, <<8179, <<937, 921>>>>,
      <<8180, <<911, 921>>>>, <<8182, <<937, 834>>>>,
      <<8183, <<937, 834, 921>>>>, <<8188, <<937, 921>>>>,
      <<64256, <<70, 70>>>>, <<64257, <<70, 73>>>>, <<64258, <<70, 76>>>>,
      <<64259, <<70, 70, 73>>>>, <<64260, <<70, 70, 76>>>>,
      <<64261, <<83, 84>>>>, <<64262, <<83, 84>>>>,
      <<64275, <<1348, 1350>>>>, <<64276, <<1348, 1333>>>>,
      <<64277, <<1348, 1339>>>>, <<64278, <<1358, 1350>>>>,
      <<64279, <<1348, 1341>>>>
    }

\* The upper case of the code point n, as code points.
UpperPoint(n) ==
    LET special == { m \in UpperSpecial : m[1] = n }
        ranges == { r \in UpperRanges :
                      n >= r[1] /\ n =< r[2] /\ (n - r[1]) % r[3] = 0 }
    IN  IF special # {} THEN (CHOOSE m \in special : TRUE)[2]
        ELSE IF ranges # {}
        THEN LET r == CHOOSE q \in ranges : TRUE IN <<r[4] + (n - r[1])>>
        ELSE <<n>>

\* String.fromCodePoint(n): one code unit, or a surrogate pair above U+FFFF.
fromCodePoint(n) ==
    IF n < 65536 THEN <<fromCharCode(n)>>
    ELSE <<fromCharCode(55296 + ((n - 65536) \div 1024)),
           fromCharCode(56320 + ((n - 65536) % 1024))>>

IsHighSurrogate(c) == ~IsAscii(c) /\ Code(c) \in 55296..56319
IsLowSurrogate(c) == ~IsAscii(c) /\ Code(c) \in 56320..57343

\* What toUpperCase puts for the code unit s[j]: the upper case of the code
\* point that starts at j (a surrogate pair is one code point), nothing for
\* the second half of a pair, a lone surrogate as it is.
UpperChar(s, j) ==
    LET c == s[j]
    IN  IF IsAscii(c)
        THEN (IF Code(c) \in 97..122 THEN <<fromCharCode(Code(c) - 32)>> ELSE <<c>>)
        ELSE IF IsHighSurrogate(c) /\ j < Len(s) /\ IsLowSurrogate(s[j + 1])
        THEN LET point == 65536 + (Code(c) - 55296) * 1024 + (Code(s[j + 1]) - 56320)
                 upper == UpperPoint(point)
             IN  Join([k \in 1..Len(upper) |-> fromCodePoint(upper[k])], <<>>)
        ELSE IF IsLowSurrogate(c) /\ j > 1 /\ IsHighSurrogate(s[j - 1]) THEN <<>>
        ELSE LET upper == UpperPoint(Code(c))
             IN  Join([k \in 1..Len(upper) |-> fromCodePoint(upper[k])], <<>>)

\* s.toUpperCase()
ToUpperCase(s) == Join([j \in 1..Len(s) |-> UpperChar(s, j)], <<>>)

\* buildSignedHeaders: the canonical body and the headers, or the error
\* signPayload throws.
buildSignedHeaders(body, keys) ==
    LET canonicalBody == canonicalize(body)
        signed == signPayload(canonicalBody, keys.privateKey)
    IN  IF signed.threw
        THEN [threw |-> TRUE, error |-> signed.error, canonicalBody |-> <<>>,
              agentId |-> <<>>, signature |-> <<>>]
        ELSE [threw |-> FALSE, error |-> NoError, canonicalBody |-> canonicalBody,
              agentId |-> keys.agentId, signature |-> signed.signature]

\* What goes on the wire, with the mapping that was canonicalized and signed.
Request(signed, signature, agentId, body) ==
    [signed |-> signed, signature |-> signature, agentId |-> agentId, body |-> body,
     error |-> NoError]

NoRequest == Request(JUndefined, <<>>, <<>>, <<>>)

\* The call threw e before anything was signed or sent.
ThrewBeforeRequest(e) == [NoRequest EXCEPT !.error = e]

\* amountCents <= 0 as JavaScript evaluates it: the operand is converted to
\* a number (ToNumber), and a comparison with NaN is false.

WhiteSpaceCodes ==
    {9, 10, 11, 12, 13, 32, 160, 5760, 8232, 8233, 8239, 8287, 12288, 65279}
        \cup (8192..8202)

IsWhiteSpace(c) == Code(c) \in WhiteSpaceCodes

\* s.trim()
Trim(s) ==
    IF \A j \in 1..Len(s) : IsWhiteSpace(s[j]) THEN <<>>
    ELSE LET first == CHOOSE j \in 1..Len(s) :
                          ~IsWhiteSpace(s[j]) /\ \A m \in 1..(j - 1) : IsWhiteSpace(s[m])
             last == CHOOSE j \in 1..Len(s) :
                          ~IsWhiteSpace(s[j]) /\ \A m \in (j + 1)..Len(s) : IsWhiteSpace(s[m])
         IN  SubSeq(s, first, last)

AllIn(s, chars) == \A j \in 1..Len(s) : s[j] \in chars

DecimalChars == {"0", "1", "2", "3", "4", "5", "6", "7", "8", "9"}

\* The digits of s from its first digit that is not 0.
StripZeros(s) ==
    IF AllIn(s, {"0"}) THEN <<>>
    ELSE SubSeq(s, CHOOSE j \in 1..Len(s) : s[j] # "0" /\ AllIn(SubSeq(s, 1, j - 1), {"0"}),
                Len(s))

\* The value of at most eight decimal digits.
RECURSIVE DigitsValue(_)
DigitsValue(s) ==
    IF s = <<>> THEN 0
    ELSE 10 * DigitsValue(SubSeq(s, 1, Len(s) - 1)) + (Code(s[Len(s)]) - 48)

\* 0.a <= 0.b for two digit sequences read as decimal fractions.
FractionLessEq(a, b) ==
    LET n == IF Len(a) > Len(b) THEN Len(a) ELSE Len(b)
        da(j) == IF j <= Len(a) THEN Code(a[j]) ELSE 48
        db(j) == IF j <= Len(b) THEN Code(b[j]) ELSE 48
    IN  \/ \A j \in 1..n : da(j) = db(j)
        \/ \E j \in 1..n : da(j) < db(j) /\ \A m \in 1..(j - 1) : da(m) = db(m)

\* The digits of 2^-1075 = 0.247...e-323, half the least positive double: a
\* decimal literal of at most this value is read as 0.
HalfMinValueDigits ==
    <<"2", "4", "7", "0", "3", "2", "8", "2", "2", "9", "2", "0", "6", "2", "3",
    "2", "7", "2", "0", "8", "8", "2", "8", "4", "3", "9", "6", "4", "3", "4",
    "1", "1", "0", "6", "8", "6", "1", "8", "2", "5", "2", "9", "9", "0", "1",
    "3", "0", "7", "1", "6", "2", "3", "8", "2", "2", "1", "2", "7", "9", "2",
    "8", "4", "1", "2", "5", "0", "3", "3", "7", "7", "5", "3", "6", "3", "5",
    "1", "0", "4", "3", "7", "5", "9", "3", "2", "6", "4", "9", "9", "1", "8",
    "1", "8", "0", "8", "1", "7", "9", "9", "6", "1", "8", "9", "8", "9", "8",
    "2", "8", "2", "3", "4", "7", "7", "2", "2", "8", "5", "8", "8", "6", "5",
    "4", "6", "3", "3", "2", "8", "3", "5", "5", "1", "7", "7", "9", "6", "9",
    "8", "9", "8", "1", "9", "9", "3", "8", "7", "3", "9", "8", "0", "0", "5",
    "3", "9", "0", "9", "3", "9", "0", "6", "3", "1", "5", "0", "3", "5", "6",
    "5", "9", "5", "1", "5", "5", "7", "0", "2", "2", "6", "3", "9", "2", "2",
    "9", "0", "8", "5", "8", "3", "9", "2", "4", "4", "9", "1", "0", "5", "1",
    "8", "4", "4", "3", "5", "9", "3", "1", "8", "0", "2", "8", "4", "9", "9",
    "3", "6", "5", "3", "6", "1", "5", "2", "5", "0", "0", "3", "1", "9", "3",
    "7", "0", "4", "5", "7", "6", "7", "8", "2", "4", "9", "2", "1", "9", "3",
    "6", "5", "6", "2", "3", "6", "6", "9", "8", "6", "3", "6", "5", "8", "4",
    "8", "0", "7", "5", "7", "0", "0", "1", "5", "8", "5", "7", "6", "9", "2",
    "6", "9", "9", "0", "3", "7", "0", "6", "3", "1", "1", "9", "2", "8", "2",
    "7", "9", "5", "5", "8", "5", "5", "1", "3", "3", "2", "9", "2", "7", "8",
    "3", "4", "3", "3", "8", "4", "0", "9", "3", "5", "1", "9", "7", "8", "0",
    "1", "5", "5", "3", "1", "2", "4", "6", "5", "9", "7", "2", "6", "3", "5",
    "7", "9", "5", "7", "4", "6", "2", "2", "7", "6", "6", "4", "6", "5", "2",
    "7", "2", "8", "2", "7", "2", "2", "0", "0", "5", "6", "3", "7", "4", "0",
    "0", "6", "4", "8", "5", "4", "9", "9", "9", "7", "7", "0", "9", "6", "5",
    "9", "9", "4", "7", "0", "4", "5", "4", "0", "2", "0", "8", "2", "8", "1",
    "6", "6", "2", "2", "6", "2", "3", "7", "8", "5", "7", "3", "9", "3", "4",
    "5", "0", "7", "3", "6", "3", "3", "9", "0", "0", "7", "9", "6", "7", "7",
    "6", "1", "9", "3", "0", "5", "7", "7", "5", "0", "6", "7", "4", "0", "1",
    "7", "6", "3", "2", "4", "6", "7", "3", "6", "0", "0", "9", "6", "8", "9",
    "5", "1", "3", "4", "0", "5", "3", "5", "5", "3", "7", "4", "5", "8", "5",
    "1", "6", "6", "6", "1", "1", "3", "4", "2", "2", "3", "7", "6", "6", "6",
    "7", "8", "6", "0", "4", "1", "6", "2", "1", "5", "9", "6", "8", "0", "4",
    "6", "1", "9", "1", "4", "4", "6", "7", "2", "9", "1", "8", "4", "0", "3",
    "0", "0", "5", "3", "0", "0", "5", "7", "5", "3", "0", "8", "4", "9", "0",
    "4", "8", "7", "6", "5", "3", "9", "1", "7", "1", "1", "3", "8", "6", "5",
    "9", "1", "6", "4", "6", "2", "3", "9", "5", "2", "4", "9", "1", "2", "6",
    "2", "3", "6", "5", "3", "8", "8", "1", "8", "7", "9", "6", "3", "6", "2",
    "3", "9", "3", "7", "3", "2", "8", "0", "4", "2", "3", "8", "9", "1", "0",
    "1", "8", "6", "7", "2", "3", "4", "8", "4", "9", "7", "6", "6", "8", "2",
    "3", "5", "0", "8", "9", "8", "6", "3", "3", "8", "8", "5", "8", "7", "9",
    "2", "5", "6", "2", "8", "3", "0", "2", "7", "5", "5", "9", "9", "5", "6",
    "5", "7", "5", "2", "4", "4", "5", "5", "5", "0", "7", "2", "5", "5", "1",
    "8", "9", "3", "1", "3", "6", "9", "0", "8", "3", "6", "2", "5", "4", "7",
    "7", "9", "1", "8", "6", "9", "4", "8", "6", "6", "7", "9", "9", "4", "9",
    "6", "8", "3", "2", "4", "0", "4", "9", "7", "0", "5", "8", "2", "1", "0",
    "2", "8", "5", "1", "3", "1", "8", "5", "4", "5", "1", "3", "9", "6", "2",
    "1", "3", "8", "3", "7", "7", "2", "2", "8", "2", "6", "1", "4", "5", "4",
    "3", "7", "6", "9", "3", "4", "1", "2", "5", "3", "2", "0", "9", "8", "5",
    "9", "1", "3", "2", "7", "6", "6", "7", "2", "3", "6", "3", "2", "8", "1",
    "2", "5">>

\* The parts of an unsigned decimal literal u: the digits before and after the
\* point and the exponent part (after e or E), with ok FALSE when u is not
\* of the form digits[.digits][e[+-]digits] or .digits[e[+-]digits].
DecimalParts(u) ==
    LET hasE == \E j \in 1..Len(u) : u[j] \in {"e", "E"}
        ePos == IF hasE THEN CHOOSE j \in 1..Len(u) :
                                u[j] \in {"e", "E"} /\ \A m \in 1..(j - 1) : u[m] \notin {"e", "E"}
                ELSE Len(u) + 1
        mant == SubSeq(u, 1, ePos - 1)
        expo == SubSeq(u, ePos + 1, Len(u))
        hasDot == \E j \in 1..Len(mant) : mant[j] = "."
        dot == IF hasDot THEN CHOOSE j \in 1..Len(mant) :
                                 mant[j] = "." /\ \A m \in 1..(j - 1) : mant[m] # "."
               ELSE Len(mant) + 1
        int == SubSeq(mant, 1, dot - 1)
        frac == SubSeq(mant, dot + 1, Len(mant))
        expNeg == expo # <<>> /\ expo[1] = "-"
        expDigits == IF expo # <<>> /\ expo[1] \in {"+", "-"} THEN Tail(expo) ELSE expo
    IN  [ok |-> /\ AllIn(int, DecimalChars) /\ AllIn(frac, DecimalChars)
                /\ Len(int) + Len(frac) > 0
                /\ hasE => (expDigits # <<>> /\ AllIn(expDigits, DecimalChars)),
         int |-> int, frac |-> frac, expNeg |-> expNeg, expDigits |-> expDigits]

\* The unsigned decimal literal with the parts d is read as 0: its digits are
\* all 0, or its value is at most 2^-1075.
DecimalIsZero(d) ==
    LET digits == d.int \o d.frac
        sig == StripZeros(digits)
        zeros == Len(digits) - Len(sig)
        e == StripZeros(d.expDigits)
        scale == Len(d.int) - zeros + (IF d.expNeg THEN 0 - DigitsValue(e) ELSE DigitsValue(e))
    IN  IF sig = <<>> THEN TRUE
        ELSE IF Len(e) > 8 THEN d.expNeg
        ELSE IF scale < -323 THEN TRUE
        ELSE IF scale > -323 THEN FALSE
        ELSE FractionLessEq(sig, HalfMinValueDigits)

\* ToNumber(s) <= 0 for a string s (StringToNumber).
StringNotPositive(s) ==
    LET t == Trim(s)
        radix(marks, digits) ==
            /\ Len(t) > 2 /\ t[1] = "0" /\ t[2] \in marks
            /\ AllIn(SubSeq(t, 3, Len(t)), digits)
        neg == t # <<>> /\ t[1] = "-"
        u == IF t # <<>> /\ t[1] \in {"+", "-"} THEN Tail(t) ELSE t
    IN  IF t = <<>> THEN TRUE
        ELSE IF \/ radix({"x", "X"}, DecimalChars \cup {"a", "b", "c", "d", "e", "f",
                                                        "A", "B", "C", "D", "E", "F"})
                \/ radix({"o", "O"}, {"0", "1", "2", "3", "4", "5", "6", "7"})
                \/ radix({"b", "B"}, {"0", "1"})
             THEN AllIn(SubSeq(t, 3, Len(t)), {"0"})
        ELSE IF u = <<"I", "n", "f", "i", "n", "i", "t", "y">> THEN neg
        ELSE IF ~DecimalParts(u).ok THEN FALSE
        ELSE neg \/ DecimalIsZero(DecimalParts(u))

\* String(v), with null and undefined as an element of an array written "".
RECURSIVE ToStringValue(_)
ToStringValue(v) ==
    CASE v.t = "null" -> <<"n", "u", "l", "l">>
      [] v.t = "undefined" -> <<"u", "n", "d", "e", "f", "i", "n", "e", "d">>
      [] v.t = "NaN" -> <<"N", "a", "N">>
      [] v.t = "boolean" -> IF v.n = 1 THEN <<"t", "r", "u", "e">> ELSE <<"f", "a", "l", "s", "e">>
      [] v.t = "number" -> NumberText(v.n)
      [] v.t = "string" -> v.s
      [] v.t = "array" ->
            Join([j \in 1..Len(v.kids) |->
                     IF v.kids[j].t \in {"null", "undefined"} THEN <<>>
                     ELSE ToStringValue(v.kids[j])], <<",">>)
      [] v.t = "object" -> <<"[", "o", "b", "j", "e", "c", "t", " ", "O", "b", "j", "e", "c", "t", "]">>

\* v <= 0
NotPositive(v) ==
    CASE v.t \in {"undefined", "NaN", "object"} -> FALSE
      [] v.t = "null" -> TRUE
      [] v.t = "boolean" -> v.n = 0
      [] v.t = "number" -> v.n <= 0
      [] v.t \in {"string", "array"} -> StringNotPositive(ToStringValue(v))

\* if (category) body.category = category; if (purpose) body.purpose = purpose
WithOptional(body, category, purpose) ==
    LET withCategory == IF category # <<>>
                        THEN SetProp(body.kids, <<"c", "a", "t", "e", "g", "o", "r", "y">>, JString(category))
                        ELSE body.kids
    IN  JObject(IF purpose # <<>>
                THEN SetProp(withCategory, <<"p", "u", "r", "p", "o", "s", "e">>, JString(purpose))
                ELSE withCategory)

SpendSignedFields_withPurpose(executionId, itemIndex, p, nonce) ==
    ObjectLiteral(<<
        Prop(<<"i", "n", "t", "e", "n", "t", "_", "i", "d">>,
             JString(IntentIdText(deriveIntentIdKora(executionId, itemIndex, OpAuthorize)))),
        Prop(<<"a", "g", "e", "n", "t", "_", "i", "d">>, JString(p.keys.agentId)),
        Prop(<<"m", "a", "n", "d", "a", "t", "e", "_", "i", "d">>, JString(p.mandateId)),
        Prop(<<"a", "m", "o", "u", "n", "t", "_", "c", "e", "n", "t", "s">>, p.amountCents),
        Prop(<<"c", "u", "r", "r", "e", "n", "c", "y">>, JString(p.currency)),
        Prop(<<"v", "e", "n", "d", "o", "r", "_", "i", "d">>, JString(p.vendor)),
        Prop(<<"n", "o", "n", "c", "e">>, JString(nonce)),
        Prop(<<"t", "t", "l", "_", "s", "e", "c", "o", "n", "d", "s">>, JInt(300)),
        Prop(<<"p", "u", "r", "p", "o", "s", "e">>, JString(p.purpose)) >>)

\* doSpend's signedFields.
SpendSignedFields(executionId, itemIndex, p, nonce) ==
    ObjectLiteral(<<
        Prop(<<"i", "n", "t", "e", "n", "t", "_", "i", "d">>,
             JString(IntentIdText(deriveIntentIdKora(executionId, itemIndex, OpAuthorize)))),
        Prop(<<"a", "g", "e", "n", "t", "_", "i", "d">>, JString(p.keys.agentId)),
        Prop(<<"m", "a", "n", "d", "a", "t", "e", "_", "i", "d">>, JString(p.mandateId)),
        Prop(<<"a", "m", "o", "u", "n", "t", "_", "c", "e", "n", "t", "s">>, p.amountCents),
        Prop(<<"c", "u", "r", "r", "e", "n", "c", "y">>, JString(p.currency)),
        Prop(<<"v", "e", "n", "d", "o", "r", "_", "i", "d">>, JString(p.vendor)),
        Prop(<<"n", "o", "n", "c", "e">>, JString(nonce)),
        Prop(<<"t", "t", "l", "_", "s", "e", "c", "o", "n", "d", "s">>, JInt(300)) >>)

doSpendRequest_signsBody(executionId, itemIndex, p, nonce) ==
    IF NotPositive(p.amountCents)
    THEN ThrewBeforeRequest(NodeOperationError("Amount must be greater than 0"))
    ELSE LET signedFields == SpendSignedFields(executionId, itemIndex, p, nonce)
             body == WithOptional(signedFields, p.category, p.purpose)
             signedH == buildSignedHeaders(body, p.keys)
         IN  IF signedH.threw THEN ThrewBeforeRequest(signedH.error)
             ELSE Request(body, signedH.signature, signedH.agentId, JSONstringify(body))

\* doSpend up to the HTTP call: the request it sends, or the error it throws
\* on the amount or in buildSignedHeaders.
doSpendRequest(executionId, itemIndex, p, nonce) ==
    IF NotPositive(p.amountCents)
    THEN ThrewBeforeRequest(NodeOperationError("Amount must be greater than 0"))
    ELSE LET signedFields == SpendSignedFields(executionId, itemIndex, p, nonce)
             signedH == buildSignedHeaders(signedFields, p.keys)
             body == WithOptional(signedFields, p.category, p.purpose)
         IN  IF signedH.threw THEN ThrewBeforeRequest(signedH.error)
             ELSE Request(signedFields, signedH.signature, signedH.agentId,
                          JSONstringify(body))

----------------------------------------------------------------------------
(* The functions authorizeSpend imports from @kora-protocol/sdk.  The      *)
(* package is not part of the sources; each is written from the contract   *)
(* the specification gives its component (4.2 Canonical Encoder,           *)
(* 4.3 Signer, 4.5 Request Builder).                                       *)

\* The builder's contract for ttl_seconds: a positive integer.
PositiveInteger(v) == v.t = "number" /\ v.n > 0 /\ v.n % 10 = 0

InvalidTtl == JsError("", "", 0, 0, 0, FALSE, "InvalidTtl")

\* buildSignedFields: the eight signed fields under their wire names; it
\* fails with InvalidTtl for a ttl that is not a positive integer.
buildSignedFields(f) ==
    IF ~PositiveInteger(f.ttlSeconds)
    THEN [threw |-> TRUE, error |-> InvalidTtl, fields |-> JUndefined]
    ELSE [threw |-> FALSE, error |-> NoError, fields |->
           ObjectLiteral(<<
             Prop(<<"i", "n", "t", "e", "n", "t", "_", "i", "d">>, JString(f.intentId)),
             Prop(<<"a", "g", "e", "n", "t", "_", "i", "d">>, JString(f.agentId)),
             Prop(<<"m", "a", "n", "d", "a", "t", "e", "_", "i", "d">>, JString(f.mandateId)),
             Prop(<<"a", "m", "o", "u", "n", "t", "_", "c", "e", "n", "t", "s">>, f.amountCents),
             Prop(<<"c", "u", "r", "r", "e", "n", "c", "y">>, JString(f.currency)),
             Prop(<<"v", "e", "n", "d", "o", "r", "_", "i", "d">>, JString(f.vendorId)),
             Prop(<<"n", "o", "n", "c", "e">>, JString(f.nonce)),
             Prop(<<"t", "t", "l", "_", "s", "e", "c", "o", "n", "d", "s">>, f.ttlSeconds) >>)]

\* A non-integer number, NaN or undefined.
NonCanonicalValue(v) ==
    \/ v.t \in {"NaN", "undefined"}
    \/ (v.t = "number" /\ v.n % 10 # 0)

\* Such a value at any nesting level of v.
RECURSIVE HasNonCanonicalValue(_)
HasNonCanonicalValue(v) ==
    \/ NonCanonicalValue(v)
    \/ /\ v.t = "array"
       /\ \E j \in 1..Len(v.kids) : HasNonCanonicalValue(v.kids[j])
    \/ /\ v.t = "object"
       /\ \E j \in 1..Len(v.kids) : HasNonCanonicalValue(v.kids[j].v)

\* The compact encoding with the keys of every mapping in ascending code
\* point order and the array elements in input order.
RECURSIVE CodepointOrderText(_)
CodepointOrderText(v) ==
    IF v.t = "array"
    THEN <<"[">> \o Join([j \in 1..Len(v.kids) |-> CodepointOrderText(v.kids[j])], <<",">>)
             \o <<"]">>
    ELSE IF v.t = "object"
    THEN LET keys == SortStrings(ObjectKeys(v))
         IN  <<"{">> \o Join([j \in 1..Len(keys) |->
                            Quote(keys[j]) \o <<":">>
                                \o CodepointOrderText(GetProp(v, keys[j]))], <<",">>)
                 \o <<"}">>
    ELSE JSONstringify(v)

NonCanonicalValueError == JsError("", "", 0, 0, 0, FALSE, "NonCanonicalValue")

\* canonicalize of the SDK (the Canonical Encoder): the encoding, or
\* NonCanonicalValue for a float, NaN or undefined.
sdkCanonicalize(obj) ==
    IF HasNonCanonicalValue(obj)
    THEN [threw |-> TRUE, error |-> NonCanonicalValueError, text |-> NoText]
    ELSE [threw |-> FALSE, error |-> NoError, text |-> CodepointOrderText(obj)]

\* sign of the SDK (the Signer): the deterministic Ed25519 signature of the
\* canonical bytes under the seed.
sign(canonical, signingKey) == Ed25519(canonical, signingKey)

\* params.ttlSeconds ?? 300
TtlOrDefault(ttlSeconds) ==
    IF ttlSeconds.t \in {"undefined", "null"} THEN JInt(300) ELSE ttlSeconds

\* authorizeSpend with the default taken by || (0 and NaN give 300 too).
authorizeSpendRequest_orDefault(params, nonce) ==
    LET ttl == IF \/ params.ttlSeconds.t \in {"undefined", "null", "NaN"}
                  \/ (params.ttlSeconds.t = "number" /\ params.ttlSeconds.n = 0)
               THEN JInt(300) ELSE params.ttlSeconds
        built == buildSignedFields(
            [intentId |-> params.intentId, agentId |-> params.keys.agentId,
             mandateId |-> params.mandateId, amountCents |-> params.amountCents,
             currency |-> ToUpperCase(params.currency), vendorId |-> params.vendor,
             nonce |-> nonce, ttlSeconds |-> ttl])
        canonical == sdkCanonicalize(built.fields)
        signature == sign(canonical.text, params.keys.privateKey)
        body == WithOptional(
                    JObject(SetProp(built.fields.kids, <<"s", "i", "g", "n", "a", "t", "u", "r", "e">>, JString(signature))),
                    params.category, params.purpose)
    IN  IF built.threw THEN ThrewBeforeRequest(built.error)
        ELSE IF canonical.threw THEN ThrewBeforeRequest(canonical.error)
        ELSE Request(built.fields, signature, params.keys.agentId, JSONstringify(body))

\* authorizeSpend signing the body, category and purpose included.
authorizeSpendRequest_signsBody(params, nonce) ==
    LET built == buildSignedFields(
            [intentId |-> params.intentId, agentId |-> params.keys.agentId,
             mandateId |-> params.mandateId, amountCents |-> params.amountCents,
             currency |-> ToUpperCase(params.currency), vendorId |-> params.vendor,
             nonce |-> nonce, ttlSeconds |-> TtlOrDefault(params.ttlSeconds)])
        signed == WithOptional(built.fields, params.category, params.purpose)
        canonical == sdkCanonicalize(signed)
        signature == sign(canonical.text, params.keys.privateKey)
        body == JObject(SetProp(signed.kids, <<"s", "i", "g", "n", "a", "t", "u", "r", "e">>, JString(signature)))
    IN  IF built.threw THEN ThrewBeforeRequest(built.error)
        ELSE IF canonical.threw THEN ThrewBeforeRequest(canonical.error)
        ELSE Request(signed, signature, params.keys.agentId, JSONstringify(body))

\* authorizeSpend up to the fetch call (the agent secret is taken to parse
\* into params.keys): the request it sends, or the error buildSignedFields
\* or canonicalize throws before anything is signed.
authorizeSpendRequest(params, nonce) ==
    LET built == buildSignedFields(
            [intentId |-> params.intentId, agentId |-> params.keys.agentId,
             mandateId |-> params.mandateId, amountCents |-> params.amountCents,
             currency |-> ToUpperCase(params.currency), vendorId |-> params.vendor,
             nonce |-> nonce, ttlSeconds |-> TtlOrDefault(params.ttlSeconds)])
        canonical == sdkCanonicalize(built.fields)
        signature == sign(canonical.text, params.keys.privateKey)
        body == WithOptional(
                    JObject(SetProp(built.fields.kids, <<"s", "i", "g", "n", "a", "t", "u", "r", "e">>, JString(signature))),
                    params.category, params.purpose)
    IN  IF built.threw THEN ThrewBeforeRequest(built.error)
        ELSE IF canonical.threw THEN ThrewBeforeRequest(canonical.error)
        ELSE Request(built.fields, signature, params.keys.agentId, JSONstringify(body))

\* The call each node's execute makes for item itemIndex.
AuthorizeParams(p, intentId) ==
    [keys |-> p.keys, mandateId |-> p.mandateId, intentId |-> intentId,
     amountCents |-> p.amountCents, currency |-> p.currency, vendor |-> p.vendor,
     category |-> p.category, purpose |-> p.purpose, ttlSeconds |-> JUndefined]

RequestOf(nd, executionId, itemIndex, p, nonce) ==
    IF nd = "Kora" THEN doSpendRequest(executionId, itemIndex, p, nonce)
    ELSE authorizeSpendRequest(
             AuthorizeParams(p, IntentIdText(deriveIntentId(executionId, itemIndex,
                 IF nd = "KoraGate" THEN OpGate ELSE OpAuthorize))), nonce)

----------------------------------------------------------------------------
(* The request one call of doSpend or authorizeSpend builds, for every     *)
(* node, item index and combination of caller parameters.                  *)

Nonces == { <<"n", "1">>, <<"n", "2">> }
Categories == { <<>>, <<"f", "o", "o", "d">> }
Purposes == { <<>>, <<"l", "u", "n", "c", "h", " ", "\"", "A", "\"">> }
Currencies == { <<"E", "U", "R">>, <<"e", "u", "r">>, <<"e", "u", fromCharCode(64257)>> }

BenchKeys == [agentId |-> <<"a", "g", "e", "n", "t", "_", "1">>, privateKey |-> <<"s", "e", "e", "d">>]

BenchParams(currency, category, purpose) ==
    [keys |-> BenchKeys, mandateId |-> <<"m", "1">>, amountCents |-> JInt(2),
     currency |-> currency, vendor |-> <<"a", "w", "s">>, category |-> category,
     purpose |-> purpose]

InitRequest ==
    /\ ExecIdle
    /\ lab \in [tag : {"request"}, nd : Nodes, executionId : ExecutionIds,
                item : 0..(MaxItems - 1), currency : Currencies,
                category : Categories, purpose : Purposes, nonce : {<<>>},
                req : {NoRequest}, bare : {NoRequest}, built : {FALSE}]

\* The call the node makes for item lab.item (doSpend in Kora, authorizeSpend
\* in KoraGate and KoraAuthorize), up to its HTTP call, with a nonce drawn
\* for the request; beside it, the same call on the same signed fields with
\* no category and no purpose.
BuildRequest ==
    /\ lab.tag = "request" /\ ~lab.built
    /\ \E nonce \in Nonces :
          lab' = [lab EXCEPT
              !.req = RequestOf(lab.nd, lab.executionId, lab.item,
                          BenchParams(lab.currency, lab.category, lab.purpose), nonce),
              !.bare = RequestOf(lab.nd, lab.executionId, lab.item,
                           BenchParams(lab.currency, <<>>, <<>>), nonce),
              !.nonce = nonce, !.built = TRUE]
    /\ UNCHANGED execVars

NextRequest == BuildRequest

SpecRequest == InitRequest /\ [][NextRequest]_vars

\* C15: with the eight signed fields fixed (nonce included), the signature
\* doSpend and authorizeSpend compute is the same with and without category
\* and purpose, which reach the transmitted body only.
C15_SignatureIgnoresCategoryPurpose ==
    (lab.tag = "request" /\ lab.built)
        => /\ lab.req.error = NoError /\ lab.req.signature # <<>>
           /\ lab.req.signature = lab.bare.signature
           /\ lab.req.signed = lab.bare.signed
           /\ (lab.category # <<>> \/ lab.purpose # <<>>) => lab.req.body # lab.bare.body

C15_Witness ==
    /\ lab.tag = "request" /\ lab.built /\ lab.nd = "KoraGate"
    /\ lab.category # <<>> /\ lab.purpose # <<>>
    /\ lab.req.body # lab.bare.body
    /\ lab.req.signature = lab.bare.signature

SignedKeys ==
    { <<"i", "n", "t", "e", "n", "t", "_", "i", "d">>, <<"a", "g", "e", "n", "t", "_", "i", "d">>, <<"m", "a", "n", "d", "a", "t", "e", "_", "i", "d">>, <<"a", "m", "o", "u", "n", "t", "_", "c", "e", "n", "t", "s">>, <<"c", "u", "r", "r", "e", "n", "c", "y">>,
      <<"v", "e", "n", "d", "o", "r", "_", "i", "d">>, <<"n", "o", "n", "c", "e">>, <<"t", "t", "l", "_", "s", "e", "c", "o", "n", "d", "s">> }

KeySet(obj) == { obj.kids[j].k : j \in 1..Len(obj.kids) }

\* C16: the mapping doSpend canonicalizes and signs has exactly the keys
\* intent_id, agent_id, mandate_id, amount_cents, currency, vendor_id, nonce
\* and ttl_seconds, for every combination of caller parameters.
C16_SignedKeysExact ==
    (lab.tag = "request" /\ lab.built /\ lab.nd = "Kora")
        => /\ lab.req.signature
                = Ed25519(canonicalize(lab.req.signed), BenchKeys.privateKey)
           /\ KeySet(lab.req.signed) = SignedKeys
           /\ Len(lab.req.signed.kids) = Cardinality(SignedKeys)

C16_Witness ==
    /\ lab.tag = "request" /\ lab.built /\ lab.nd = "Kora"
    /\ lab.category # <<>> /\ lab.purpose # <<>> /\ lab.item = 1
    /\ KeySet(lab.req.signed) = SignedKeys

----------------------------------------------------------------------------
(* parseAgentSecret: src/nodes/Kora/transport/koraClient.ts.  A Buffer is  *)
(* a sequence of bytes.                                                    *)

SeedLength == 32

SecretPrefix == <<"k", "o", "r", "a", "_", "a", "g", "e", "n", "t", "_", "s", "k", "_">>

Base64Alphabet == <<"A", "B", "C", "D", "E", "F", "G", "H", "I", "J", "K", "L", "M", "N", "O", "P", "Q", "R", "S", "T", "U", "V", "W", "X", "Y", "Z", "a", "b", "c", "d", "e", "f", "g", "h", "i", "j", "k", "l", "m", "n", "o", "p", "q", "r", "s", "t", "u", "v", "w", "x", "y", "z", "0", "1", "2", "3", "4", "5", "6", "7", "8", "9", "+", "/">>

\* The decoders of Buffer.from(s, 'base64') and Buffer.from(s, 'hex') read a
\* code unit as its low byte: U+0141 is read as "A" (0x41).
LowByteChar(c) == IF IsAscii(c) THEN c ELSE fromCharCode(Code(c) % 256)

\* The characters Buffer.from(s, 'base64') decodes: the standard alphabet and
\* the URL-safe - and _.
IsBase64Char(c) ==
    LowByteChar(c) \in { Base64Alphabet[k] : k \in 1..64 } \cup {"-", "_"}

Base64Value(c) ==
    LET low == LowByteChar(c)
    IN  IF low = "-" THEN 62
        ELSE IF low = "_" THEN 63
        ELSE (CHOOSE k \in 1..64 : Base64Alphabet[k] = low) - 1

\* Buffer.from(b64, 'base64'): never throws; decoding stops at the first "=",
\* characters outside the alphabet are skipped, leftover bits are dropped.
Base64Decode(b64) ==
    LET pad(j) == LowByteChar(b64[j]) = "="
        stop == IF \E j \in 1..Len(b64) : pad(j)
                THEN (CHOOSE j \in 1..Len(b64) :
                         pad(j) /\ \A m \in 1..(j - 1) : ~pad(m)) - 1
                ELSE Len(b64)
        legal == SelectSeq(SubSeq(b64, 1, stop), IsBase64Char)
        n == (Len(legal) * 6) \div 8
    IN  [k \in 1..n |->
            LET bit == 8 * (k - 1)
                first == (bit \div 6) + 1
                pair == 64 * Base64Value(legal[first]) + Base64Value(legal[first + 1])
            IN  (pair \div (2 ^ (4 - (bit % 6)))) % 256]

\* The length of the UTF-8 sequence a lead byte announces, 0 for a byte that
\* cannot begin one.
Utf8Need(b) ==
    IF b < 128 THEN 1
    ELSE IF b \in 194..223 THEN 2
    ELSE IF b \in 224..239 THEN 3
    ELSE IF b \in 240..244 THEN 4
    ELSE 0

\* The second bytes a lead byte admits (no overlong form, no surrogate,
\* nothing above U+10FFFF).
Utf8Second(lead) ==
    IF lead = 224 THEN 160..191
    ELSE IF lead = 237 THEN 128..159
    ELSE IF lead = 240 THEN 144..191
    ELSE IF lead = 244 THEN 128..143
    ELSE 128..191

\* The bytes the decoder takes at once from position p: a whole sequence, or
\* the longest beginning of one (at least the byte at p).
Utf8Span(bytes, p) ==
    LET lead == bytes[p]
        need == Utf8Need(lead)
        n == Len(bytes)
        ok2 == need >= 2 /\ p + 1 <= n /\ bytes[p + 1] \in Utf8Second(lead)
        ok3 == ok2 /\ need >= 3 /\ p + 2 <= n /\ bytes[p + 2] \in 128..191
        ok4 == ok3 /\ need = 4 /\ p + 3 <= n /\ bytes[p + 3] \in 128..191
    IN  IF ok4 THEN 4 ELSE IF ok3 THEN 3 ELSE IF ok2 THEN 2 ELSE 1

\* The decoder begins a sequence at p: p is not a continuation byte taken
\* with the lead byte before it.
Utf8Starts(bytes, p) ==
    \/ bytes[p] \notin 128..191
    \/ ~\E d \in 1..3 :
          /\ p - d >= 1
          /\ bytes[p - d] \notin 128..191
          /\ \A m \in (p - d + 1)..(p - 1) : bytes[m] \in 128..191
          /\ Utf8Span(bytes, p - d) > d

\* The code units decoded at p: one character, a surrogate pair for a code
\* point above U+FFFF, U+FFFD for an ill-formed sequence.
Utf8Chars(bytes, p) ==
    LET lead == bytes[p]
        need == Utf8Need(lead)
        cont(k) == bytes[p + k] - 128
        cp == IF need = 1 THEN lead
              ELSE IF need = 2 THEN (lead - 192) * 64 + cont(1)
              ELSE IF need = 3 THEN (lead - 224) * 4096 + cont(1) * 64 + cont(2)
              ELSE (lead - 240) * 262144 + cont(1) * 4096 + cont(2) * 64 + cont(3)
    IN  IF ~Utf8Starts(bytes, p) THEN <<>>
        ELSE IF need = 0 \/ Utf8Span(bytes, p) < need THEN <<fromCharCode(65533)>>
        ELSE IF cp < 65536 THEN <<fromCharCode(cp)>>
        ELSE <<fromCharCode(55296 + ((cp - 65536) \div 1024)),
               fromCharCode(56320 + ((cp - 65536) % 1024))>>

\* buf.toString('utf-8')
Utf8Text(bytes) == Join([p \in 1..Len(bytes) |-> Utf8Chars(bytes, p)], <<>>)

IsHexChar(c) ==
    LET low == LowByteChar(c)
    IN  \/ IsDigit(low)
        \/ low \in {"a", "b", "c", "d", "e", "f", "A", "B", "C", "D", "E", "F"}

HexValue(c) ==
    LET low == LowByteChar(c)
    IN  IF IsDigit(low) THEN Code(low) - 48
        ELSE IF low \in {"a", "b", "c", "d", "e", "f"} THEN Code(low) - 87
        ELSE Code(low) - 55

\* Buffer.from(hex, 'hex'): never throws; an odd last character is dropped
\* and decoding ends at the first pair that is not two hex digits.
HexDecode(hex) ==
    LET pairs == Len(hex) \div 2
        n == CHOOSE k \in 0..pairs :
                /\ \A j \in 1..(2 * k) : IsHexChar(hex[j])
                /\ (k = pairs \/ ~(IsHexChar(hex[2 * k + 1]) /\ IsHexChar(hex[2 * k + 2])))
    IN  [k \in 1..n |-> 16 * HexValue(hex[2 * k - 1]) + HexValue(hex[2 * k])]

StartsWith(s, prefix) ==
    Len(s) >= Len(prefix) /\ SubSeq(s, 1, Len(prefix)) = prefix

\* s.indexOf(c), 0-based, -1 when absent.
IndexOf(s, c) ==
    IF \E j \in 1..Len(s) : s[j] = c
    THEN (CHOOSE j \in 1..Len(s) : s[j] = c /\ \A m \in 1..(j - 1) : s[m] # c) - 1
    ELSE -1

AgentKeys(agentId, privateKey) ==
    [ok |-> TRUE, error |-> "", got |-> 0, agentId |-> agentId,
     privateKey |-> privateKey]

\* new Error(message + got)
SecretError(message, got) ==
    [ok |-> FALSE, error |-> message, got |-> got, agentId |-> <<>>,
     privateKey |-> <<>>]

NoKeys == SecretError("", 0)

parseAgentSecret(secret) ==
    IF ~StartsWith(secret, SecretPrefix)
    THEN SecretError("Invalid agent secret: must start with kora_agent_sk_", 0)
    ELSE LET b64 == SubSeq(secret, Len(SecretPrefix) + 1, Len(secret))
             decoded == Utf8Text(Base64Decode(b64))
             colonIndex == IndexOf(decoded, ":")
         IN  IF colonIndex = -1
             THEN SecretError("Invalid agent secret format: missing key separator", 0)
             ELSE LET agentId == SubSeq(decoded, 1, colonIndex)
                      hexSeed == SubSeq(decoded, colonIndex + 2, Len(decoded))
                      privateKey == HexDecode(hexSeed)
                  IN  IF Len(privateKey) # SeedLength
                      THEN SecretError("Invalid key seed: expected 32 bytes, got ", Len(privateKey))
                      ELSE AgentKeys(agentId, privateKey)

----------------------------------------------------------------------------
(* Secrets for parseAgentSecret: kora_agent_sk_{base64(agentId:hexSeed)},  *)
(* well formed and malformed.                                              *)

\* Standard base64 with padding, of printable ASCII text.
Base64Encode(text) ==
    LET n == Len(text)
        byte(j) == IF j <= n THEN Code(text[j]) ELSE 0
    IN  [k \in 1..(4 * ((n + 2) \div 3)) |->
            LET bit == 6 * (k - 1)
                first == (bit \div 8) + 1
                pair == 256 * byte(first) + byte(first + 1)
            IN  IF bit >= 8 * n THEN "="
                ELSE Base64Alphabet[((pair \div (2 ^ (10 - (bit % 8)))) % 64) + 1]]

\* The hex encoding of the 32 bytes 00 01 .. 1f.
HexSeed32 == <<"0", "0", "0", "1", "0", "2", "0", "3", "0", "4", "0", "5", "0", "6", "0", "7", "0", "8", "0", "9", "0", "a", "0", "b", "0", "c", "0", "d", "0", "e", "0", "f", "1", "0", "1", "1", "1", "2", "1", "3", "1", "4", "1", "5", "1", "6", "1", "7", "1", "8", "1", "9", "1", "a", "1", "b", "1", "c", "1", "d", "1", "e", "1", "f">>

Prefixes == { SecretPrefix, <<"k", "o", "r", "a", "_", "a", "g", "e", "n", "t", "_", "p", "k", "_">>, <<>> }
AgentIds == { <<"a", "g", "e", "n", "t", "_", "1">>, <<>> }
Separators == { <<":">>, <<>> }
HexSeeds ==
    { HexSeed32,
      ToUpperCase(HexSeed32),
      SubSeq(HexSeed32, 1, 62),
      HexSeed32 \o <<"2", "0">>,
      HexSeed32 \o <<"z", "z">>,
      HexSeed32 \o <<"a">>,
      SubSeq(HexSeed32, 1, 10) \o <<"g">> \o SubSeq(HexSeed32, 12, 64),
      <<>> }
\* Characters put into the base64 text, after its 20th character (or its last).
Damages == { <<>>, <<"$">>, <<" ">>, <<fromCharCode(321)>> }

SecretOf(l) ==
    LET b64 == Base64Encode(l.agentId \o l.sep \o l.hex)
        cut == IF Len(b64) < 20 THEN Len(b64) ELSE 20
    IN  l.prefix \o SubSeq(b64, 1, cut) \o l.damage \o SubSeq(b64, cut + 1, Len(b64))

InitSecret ==
    /\ ExecIdle
    /\ lab \in [tag : {"secret"}, prefix : Prefixes, agentId : AgentIds,
                sep : Separators, hex : HexSeeds, damage : Damages,
                keys : {NoKeys}, done : {FALSE}]

ParseSecret ==
    /\ lab.tag = "secret" /\ ~lab.done
    /\ lab' = [lab EXCEPT !.keys = parseAgentSecret(SecretOf(lab)), !.done = TRUE]
    /\ UNCHANGED execVars

NextSecret == ParseSecret

SpecSecret == InitSecret /\ [][NextSecret]_vars

\* Strict base64: alphabet characters in groups of four, "=" only as the
\* padding of the last group.
StrictBase64(b64) ==
    LET pad == Cardinality({ j \in 1..Len(b64) : b64[j] = "=" })
    IN  /\ Len(b64) % 4 = 0
        /\ pad <= 2
        /\ \A j \in 1..Len(b64) :
              IF j > Len(b64) - pad THEN b64[j] = "="
              ELSE b64[j] \in { Base64Alphabet[k] : k \in 1..64 }

\* The secret is kora_agent_sk_ followed by valid base64 of text that has a
\* colon and, after its first colon, the hex encoding of exactly 32 bytes.
WellFormedSecret(secret) ==
    /\ StartsWith(secret, SecretPrefix)
    /\ LET b64 == SubSeq(secret, Len(SecretPrefix) + 1, Len(secret))
           decoded == Utf8Text(Base64Decode(b64))
           colonIndex == IndexOf(decoded, ":")
       IN  /\ StrictBase64(b64)
           /\ colonIndex # -1
           /\ LET hexSeed == SubSeq(decoded, colonIndex + 2, Len(decoded))
              IN  /\ Len(hexSeed) = 2 * SeedLength
                  /\ \A j \in 1..Len(hexSeed) : IsHexChar(hexSeed[j])

\* C17: parseAgentSecret fails whenever the prefix is missing, the base64
\* text does not decode, the decoded text has no colon or the part after the
\* first colon is not the hex encoding of exactly 32 bytes (nothing is
\* truncated or skipped); on success agentId is the text before the first
\* colon and the seed has exactly 32 bytes.
C17_MalformedSecretRejected ==
    (lab.tag = "secret" /\ lab.done)
        => /\ ~WellFormedSecret(SecretOf(lab)) => ~lab.keys.ok
           /\ lab.keys.ok => /\ lab.keys.agentId = lab.agentId
                             /\ Len(lab.keys.privateKey) = SeedLength

----------------------------------------------------------------------------
(* The budget result: KoraBudget.execute (one item) and doBudget, the      *)
(* Check Budget operation of the Kora node, on a budget answer.            *)

\* A boolean that may be missing from the answer.
Tri == {"true", "false", "undefined"}

SnapshotStatuses == {"active", "suspended", "exhausted"}
SnapshotRemaining == {-1, 0, 2, 3}
SnapshotLimits == {0, 4, 200}
SnapshotSpent == {1, 29}

\* IEEE 754 double arithmetic on bit sequences (most significant bit first),
\* for Math.round((spent / limit) * 100).

MantissaBits == 53

\* The binary digits of a natural number, <<>> for 0.
RECURSIVE Binary(_)
Binary(n) == IF n = 0 THEN <<>> ELSE Binary(n \div 2) \o <<n % 2>>

RECURSIVE BitsValue(_)
BitsValue(bits) ==
    IF bits = <<>> THEN 0
    ELSE 2 * BitsValue(SubSeq(bits, 1, Len(bits) - 1)) + bits[Len(bits)]

\* The remainder of the long division r / d after k more binary places, seven
\* places at a time (r < d < 2^24, so that r * 2^7 is below 2^31).
RECURSIVE Remainder(_, _, _)
Remainder(r, d, k) ==
    IF k >= 7 THEN Remainder((128 * r) % d, d, k - 7) ELSE (r * 2^k) % d

\* The zeros between the binary point and the first 1 of r / d (0 < r < d).
RECURSIVE LeadingZeros(_, _)
LeadingZeros(r, d) == IF 2 * r >= d THEN 0 ELSE 1 + LeadingZeros(2 * r, d)

\* bits + 1, one bit longer when every bit is 1.
Increment(bits) ==
    IF \A j \in 1..Len(bits) : bits[j] = 1
    THEN <<1>> \o [j \in 1..Len(bits) |-> 0]
    ELSE LET last == CHOOSE j \in 1..Len(bits) :
                         bits[j] = 0 /\ \A m \in (j + 1)..Len(bits) : bits[m] = 1
         IN  [j \in 1..Len(bits) |->
                 IF j < last THEN bits[j] ELSE IF j = last THEN 1 ELSE 0]

\* A positive double: the integer of the 53 bits m, divided by 2^places.
Double(m, places) == [m |-> m, places |-> places]

\* Round to nearest, ties to even: the bits kept, the first bit dropped and
\* whether anything not zero follows it; places counts the binary places of
\* the bits kept.
RoundToDouble(kept, round, sticky, places) ==
    IF round = 1 /\ (sticky \/ kept[Len(kept)] = 1)
    THEN LET up == Increment(kept)
         IN  IF Len(up) > Len(kept)
             THEN Double(SubSeq(up, 1, Len(kept)), places - 1)
             ELSE Double(up, places)
    ELSE Double(kept, places)

\* n / d as a double, for integers 0 < n and 0 < d.
Divide(n, d) ==
    LET int == Binary(n \div d)
        r == n % d
        places == IF int # <<>> THEN MantissaBits - Len(int)
                  ELSE LeadingZeros(r, d) + MantissaBits
        frac == [j \in 1..(places + 1) |-> (2 * Remainder(r, d, j - 1)) \div d]
        bits == int \o frac
        first == Len(bits) - MantissaBits
    IN  RoundToDouble(SubSeq(bits, first, Len(bits) - 1), bits[Len(bits)],
                      Remainder(r, d, places + 1) # 0, places)

\* The w binary digits of n, for n < 2^w.
Digits(n, w) == [j \in 1..w |-> (n \div 2^(w - j)) % 2]

\* x * c as a double, for a positive double x and a natural number c < 2^12:
\* the 53 bits are multiplied in three limbs of 17, 18 and 18 bits.
Times(x, c) ==
    LET low == BitsValue(SubSeq(x.m, 36, 53)) * c
        mid == BitsValue(SubSeq(x.m, 18, 35)) * c + low \div 2^18
        high == BitsValue(SubSeq(x.m, 1, 17)) * c + mid \div 2^18
        product == Binary(high) \o Digits(mid % 2^18, 18) \o Digits(low % 2^18, 18)
        dropped == Len(product) - MantissaBits
    IN  IF dropped = 0 THEN Double(product, x.places)
        ELSE RoundToDouble(SubSeq(product, 1, MantissaBits), product[MantissaBits + 1],
                           \E j \in (MantissaBits + 2)..Len(product) : product[j] = 1,
                           x.places - dropped)

\* The bit of x at the binary place k (1 is the place of 1/2).
PlaceBit(x, k) ==
    IF MantissaBits - x.places + k \in 1..MantissaBits
    THEN x.m[MantissaBits - x.places + k] ELSE 0

\* Math.floor(x) of a positive double below 2^31.
Floor(x) ==
    IF x.places >= MantissaBits THEN 0
    ELSE BitsValue(SubSeq(x.m, 1, MantissaBits - x.places))

\* Math.round((spent / limit) * 100): the quotient and the product are each
\* rounded to a double, Math.round rounds a tie upwards.  For integers spent
\* and limit below 2^24 in size.
PercentUsed(spent, limit) ==
    IF limit <= 0 \/ spent = 0 THEN 0
    ELSE LET x == Times(Divide(IF spent < 0 THEN 0 - spent ELSE spent, limit), 100)
             half == PlaceBit(x, 1) = 1
             more == \E k \in 2..(MantissaBits + 40) : PlaceBit(x, k) = 1
         IN  IF spent > 0 THEN Floor(x) + (IF half THEN 1 ELSE 0)
             ELSE 0 - (Floor(x) + (IF half /\ more THEN 1 ELSE 0))

BudgetResult(status, remaining, limit, spent, canSpend, percent) ==
    [status |-> status, daily_remaining_cents |-> remaining,
     daily_limit_cents |-> limit, daily_spent_cents |-> spent,
     can_spend |-> canSpend, percent_daily_used |-> percent]

NoBudgetResult == BudgetResult("", 0, 0, 0, "undefined", 0)

\* status === 'active' && spendAllowed && remainingCents > 0
KoraBudgetResult(b) ==
    LET canSpend == IF b.status # "active" THEN "false"
                    ELSE IF b.spendAllowed # "true" THEN b.spendAllowed
                    ELSE IF b.remaining > 0 THEN "true" ELSE "false"
    IN  BudgetResult(b.status, b.remaining, b.limit, b.spent, canSpend,
                     PercentUsed(b.spent, b.limit))

\* can_spend: data.spend_allowed ?? false
doBudgetResult(b) ==
    LET canSpend == IF b.spendAllowed = "undefined" THEN "false" ELSE b.spendAllowed
    IN  BudgetResult(b.status, b.remaining, b.limit, b.spent, canSpend,
                     PercentUsed(b.spent, b.limit))

InitBudget ==
    /\ ExecIdle
    /\ lab \in [tag : {"budget"}, impl : {"KoraBudget", "doBudget"},
                status : SnapshotStatuses, remaining : SnapshotRemaining,
                limit : SnapshotLimits, spent : SnapshotSpent, spendAllowed : Tri,
                out : {NoBudgetResult}, done : {FALSE}]

CheckBudget ==
    /\ lab.tag = "budget" /\ ~lab.done
    /\ lab' = [lab EXCEPT
           !.out = IF lab.impl = "KoraBudget" THEN KoraBudgetResult(lab)
                   ELSE doBudgetResult(lab),
           !.done = TRUE]
    /\ UNCHANGED execVars

NextBudget == CheckBudget

SpecBudget == InitBudget /\ [][NextBudget]_vars

\* C21: can_spend of a budget result is true exactly when the mandate is
\* active, the daily remaining amount is greater than 0 and the service
\* allows spending, for KoraBudget.execute and for doBudget.
C21_CanSpendIffActiveWithBudget ==
    (lab.tag = "budget" /\ lab.done)
        => (lab.out.can_spend = "true"
               <=> (lab.status = "active" /\ lab.remaining > 0
                       /\ lab.spendAllowed = "true"))

----------------------------------------------------------------------------
(* KoraTool: func of the kora_authorize_spend tool, on the outcome of      *)
(* kora.spend (a result, null, or a throw).                                *)

SpendErrors ==
    { JsError("", "", 503, 0, 0, FALSE, "Kora server error: HTTP <status>"),
      JsError("ECONNREFUSED", "", 0, 0, 0, FALSE, "Connection refused"),
      JsError("", "ETIMEDOUT", 0, 0, 0, FALSE, "fetch failed"),
      JsError("", "", 400, 0, 0, FALSE, "Bad Request") }

\* kora.spend: kind "result" (approved may be missing), "null" (no result
\* object) or "throw"; unserializable: JSON.stringify throws on the
\* response built from the result (approved or denied).
SpendOutcomes ==
    [kind : {"result", "null", "throw"}, approved : Tri, seal : BOOLEAN,
     raw : BOOLEAN, retryWith : BOOLEAN, unserializable : BOOLEAN,
     error : SpendErrors]

ToolResponse(threw, status, message, instruction, seal, retry) ==
    [threw |-> threw, status |-> status, message |-> message,
     instruction |-> instruction, seal |-> seal, retry_with_cents |-> retry]

NoToolResponse == ToolResponse(FALSE, "", "", "", "", "")

ToolUnavailable ==
    ToolResponse(FALSE, "ERROR",
        "Kora is unavailable. You MUST NOT proceed with any payment.",
        "Do not attempt the payment. Inform the user that authorization is currently unavailable.",
        "", "")

\* func with a catch block that throws the error on.
KoraToolFunc_rethrow(o) ==
    IF o.kind # "result" \/ o.unserializable
    THEN ToolResponse(TRUE, "", "", "", "", "")
    ELSE IF o.approved = "true"
    THEN ToolResponse(FALSE, "APPROVED", "result.message", "",
             IF o.seal THEN "Cryptographic proof attached" ELSE "null", "")
    ELSE ToolResponse(FALSE, "DENIED", "result.message",
             "You MUST NOT proceed with this payment. Inform the user of the denial reason.",
             "", IF o.retryWith THEN "result.retryWith.amount_cents" ELSE "null")

\* func: the try block, then the catch block for whatever it throws
\* (kora.spend rejecting, result.approved on null, JSON.stringify failing
\* in either branch of the try block).
KoraToolFunc(o) ==
    IF o.kind # "result" \/ o.unserializable THEN ToolUnavailable
    ELSE IF o.approved = "true"
    THEN ToolResponse(FALSE, "APPROVED", "result.message", "",
             IF o.seal THEN "Cryptographic proof attached" ELSE "null", "")
    ELSE ToolResponse(FALSE, "DENIED", "result.message",
             "You MUST NOT proceed with this payment. Inform the user of the denial reason.",
             "", IF o.retryWith THEN "result.retryWith.amount_cents" ELSE "null")

InitTool ==
    /\ ExecIdle
    /\ lab \in [tag : {"tool"}, spend : SpendOutcomes, out : {NoToolResponse},
                done : {FALSE}]

CallTool ==
    /\ lab.tag = "tool" /\ ~lab.done
    /\ lab' = [lab EXCEPT !.out = KoraToolFunc(lab.spend), !.done = TRUE]
    /\ UNCHANGED execVars

NextTool == CallTool

SpecTool == InitTool /\ [][NextTool]_vars

\* The texts of the tool that tell the agent not to proceed.
MustNotProceedTexts ==
    { "You MUST NOT proceed with this payment. Inform the user of the denial reason.",
      "Kora is unavailable. You MUST NOT proceed with any payment." }

\* C22 as stated: func never throws; it answers APPROVED only for an
\* approved spend result, DENIED with a must-not-proceed instruction for
\* every result that is not approved, and ERROR with a must-not-proceed
\* message whenever the spend call raises an error.
C22_DeniedForEveryUnapprovedResult ==
    (lab.tag = "tool" /\ lab.done)
        => /\ ~lab.out.threw
           /\ lab.out.status \in {"APPROVED", "DENIED", "ERROR"}
           /\ lab.out.status = "APPROVED"
                 => (lab.spend.kind = "result" /\ lab.spend.approved = "true")
           /\ (lab.spend.kind = "result" /\ lab.spend.approved # "true")
                 => (lab.out.status = "DENIED"
                        /\ lab.out.instruction \in MustNotProceedTexts)
           /\ lab.spend.kind # "result"
                 => (lab.out.status = "ERROR" /\ lab.out.message \in MustNotProceedTexts)

\* C22, amended: func never throws; it answers APPROVED only for an approved
\* spend result, DENIED with a must-not-proceed instruction for a result
\* that is not approved and whose response can be serialized, and ERROR
\* with a must-not-proceed message whenever the spend call raises an error
\* or building the response throws.
C22_ToolFailsClosed ==
    (lab.tag = "tool" /\ lab.done)
        => /\ ~lab.out.threw
           /\ lab.out.status \in {"APPROVED", "DENIED", "ERROR"}
           /\ lab.out.status = "APPROVED"
                 => (lab.spend.kind = "result" /\ lab.spend.approved = "true")
           /\ (lab.spend.kind = "result" /\ lab.spend.approved # "true"
                  /\ ~lab.spend.unserializable)
                 => (lab.out.status = "DENIED"
                        /\ lab.out.instruction \in MustNotProceedTexts)
           /\ (lab.spend.kind # "result" \/ lab.spend.unserializable)
                 => (lab.out.status = "ERROR" /\ lab.out.message \in MustNotProceedTexts)

\* A denied result whose response cannot be serialized: the catch block
\* answers ERROR with the must-not-proceed message.
C22_Witness ==
    /\ lab.tag = "tool" /\ lab.done
    /\ lab.spend.kind = "result" /\ lab.spend.approved = "false"
    /\ lab.spend.unserializable
    /\ lab.out.status = "ERROR" /\ ~lab.out.threw
    /\ lab.out.message \in MustNotProceedTexts

----------------------------------------------------------------------------
(* Claims about the execute loops, continued.                              *)

Max(a, b) == IF a >= b THEN a ELSE b

\* C23: in KoraGate.execute the pre-check threshold is the configured minimum
\* when an explicit minimum (> 0) is set, and max(configured minimum,
\* requested amount) when none is set, for every minimum and amount, zero and
\* negative amounts included.
C23_ThresholdIsMinimumOrMax ==
    (node = "KoraGate" /\ cur.preCheck /\ cur.budget.kind # "none")
        => CurThreshold = IF cur.minimumRequired > 0
                          THEN cur.minimumRequired
                          ELSE Max(cur.minimumRequired, cur.amountCents)

\* C28: in KoraGate.execute with pre-check, a budget query that itself fails
\* (server error or network failure) makes execute throw: the item is on no
\* output and no authorize request is sent for it.
C28_BudgetFailureIsFatal ==
    (node = "KoraGate" /\ cur.preCheck /\ cur.budget.kind = "throw")
        => /\ FatalFor(cur.item)
           /\ authCount[cur.item] = 0
           /\ ~Proceeded
           /\ \A k \in 1..Len(calls) :
                 calls[k].item = cur.item => calls[k].op = "budget"

C28_Witness ==
    /\ node = "KoraGate" /\ cur.preCheck /\ cur.budget.kind = "throw"
    /\ cur.budget.error.code = "ECONNREFUSED" /\ cur.item = 1
    /\ pc = "failed" /\ error.isNodeOperationError
    /\ Len(insufficientItems) = 1 /\ authCount[1] = 0

\* C29: items are processed in index order, one at a time: a budget or
\* authorize call for an item is issued only when every item of lower index
\* has been classified (is on an output), and after a fatal error no call is
\* issued at all.
C29_InIndexOrder ==
    [][ /\ (calls' # calls) =>
              /\ Len(calls') = Len(calls) + 1
              /\ SubSeq(calls', 1, Len(calls)) = calls
              /\ \A j \in 0..(calls'[Len(calls')].item - 1) : OnSomeOutput(j)
              /\ \A k \in 1..Len(calls) : calls[k].item <= calls'[Len(calls')].item
        /\ (pc = "failed") => (calls' = calls) ]_vars

C29_Witness ==
    /\ pc = "failed" /\ nItems = 2 /\ cur.item = 1 /\ node = "KoraGate"
    /\ Len(calls) = 3
    /\ calls[1] = [op |-> "budget", item |-> 0]
    /\ calls[2] = [op |-> "authorize", item |-> 0]
    /\ calls[3] = [op |-> "budget", item |-> 1]
    /\ OnSomeOutput(0)

\* C30: a fatal error on any item makes execute return nothing: the outcomes
\* already classified for items of lower index are delivered on no output,
\* although their authorize requests have been sent.
C30_FatalDeliversNothing ==
    (pc = "failed")
        => /\ output = NoOutput
           /\ error # NoError
           /\ ~(node = "Kora" /\ continueOnFail)

C30_Witness ==
    /\ pc = "failed" /\ node = "KoraAuthorize" /\ nItems = 2 /\ cur.item = 1
    /\ Len(approvedItems) = 1 /\ approvedItems[1].item = 0
    /\ authCount[0] = 1
    /\ output = NoOutput

----------------------------------------------------------------------------
(* authorizeSpend with a caller-given ttlSeconds.                          *)

\* ttlSeconds: missing, null, NaN, or a number (in tenths: 5 is 0.5).
TtlInputs ==
    { JUndefined, JNull, JNaN }
        \cup { JNumber(t) : t \in {-10, 0, 5, 10, 15, 600, 3000} }

InitTtl ==
    /\ ExecIdle
    /\ lab \in [tag : {"ttl"}, ttl : TtlInputs, currency : Currencies,
                category : Categories, purpose : Purposes, nonce : Nonces,
                req : {NoRequest}, done : {FALSE}]

\* authorizeSpend called with ttlSeconds, up to the fetch call: the request
\* goes out, or the call throws before it.
AuthorizeWithTtl ==
    /\ lab.tag = "ttl" /\ ~lab.done
    /\ lab' = [lab EXCEPT
           !.req = authorizeSpendRequest(
                       [AuthorizeParams(
                            BenchParams(lab.currency, lab.category, lab.purpose),
                            IntentIdText(deriveIntentId(<<"7">>, 0, OpGate)))
                          EXCEPT !.ttlSeconds = lab.ttl],
                       lab.nonce),
           !.done = TRUE]
    /\ UNCHANGED execVars

NextTtl == AuthorizeWithTtl

SpecTtl == InitTtl /\ [][NextTtl]_vars

\* C24: authorizeSpend uses ttl_seconds = 300 when the caller gives none, and
\* when the caller gives a ttl that is not a positive integer (zero, negative
\* or fractional) it fails with InvalidTtl before anything is signed or sent.
C24_TtlDefaultAndValidated ==
    (lab.tag = "ttl" /\ lab.done)
        => /\ lab.ttl.t \in {"undefined", "null"}
                => (lab.req.error = NoError /\ lab.req.signature # <<>>
                       /\ GetProp(lab.req.signed, <<"t", "t", "l", "_", "s", "e", "c", "o", "n", "d", "s">>) = JInt(300))
           /\ (lab.ttl.t \notin {"undefined", "null"} /\ ~PositiveInteger(lab.ttl))
                => lab.req = ThrewBeforeRequest(InvalidTtl)

\* A ttl of 0 is given: InvalidTtl, and no request.
C24_Witness ==
    /\ lab.tag = "ttl" /\ lab.done /\ lab.ttl = JNumber(0)
    /\ lab.req.error = InvalidTtl
    /\ lab.req.signature = <<>> /\ lab.req.body = <<>>

----------------------------------------------------------------------------
(* canonicalize on values of every kind, at the top level, in a nested     *)
(* mapping and in an array.                                                *)

\* Numbers are in tenths: JNumber(25) is 2.5.
ProbeValues ==
    << JNumber(25), JNumber(5), JNumber(-15), JNaN, JUndefined,
       JInt(2), JInt(0), JInt(-3), JNull, JString(<<"x">>), JBool(FALSE) >>

Places == {"top", "nested", "array"}

\* A mapping of three keys holding the value v at the given place.
ProbeMapping(keys, place, v) ==
    ObjectLiteral(<<
        Prop(keys[1], IF place = "top" THEN v ELSE JInt(1)),
        Prop(keys[2], ObjectLiteral(<<
            Prop(keys[1], IF place = "nested" THEN v ELSE JInt(1)),
            Prop(keys[3], JString(<<"y">>)) >>)),
        Prop(keys[3], JArray(<< JInt(1), IF place = "array" THEN v ELSE JInt(1) >>)) >>)

InitValues ==
    /\ ExecIdle
    /\ lab \in [tag : {"values"}, table : 1..Len(KeyTables),
                probe : 1..Len(ProbeValues), place : Places,
                out : {NoText}, done : {FALSE}]

CanonicalizeValue ==
    /\ lab.tag = "values" /\ ~lab.done
    /\ lab' = [lab EXCEPT
           !.out = canonicalize(ProbeMapping(KeyTables[lab.table], lab.place,
                                             ProbeValues[lab.probe])),
           !.done = TRUE]
    /\ UNCHANGED execVars

NextValues == CanonicalizeValue

SpecValues == InitValues /\ [][NextValues]_vars

\* C25: canonicalize fails (emits no encoding) whenever a value at any
\* nesting level of its input is a non-integer number, NaN or undefined; it
\* never emits an encoding in which such a value is dropped or replaced.
C25_NonCanonicalValueRejected ==
    (lab.tag = "values" /\ lab.done /\ NonCanonicalValue(ProbeValues[lab.probe]))
        => lab.out = NoText

\* C26: in the output of canonicalize the keys of every mapping, at every
\* nesting level, are in ascending code point order, for every set of string
\* keys (keys that look like integers, as "10" and "9", included), and array
\* elements keep the order of the input.
C26_KeysInCodepointOrder ==
    (lab.tag = "canon" /\ lab.done)
        => lab.outb = CodepointOrderText(
                          BuildMapping(KeyTables[lab.table], lab.pout, lab.pin))

\* C27: the string deriveIntentId hashes is an injective encoding of the
\* triple: two distinct triples (executionId, itemIndex, operation), for any
\* strings and any non-negative index, never give the same hash input, hence
\* never the same intent id.
C27_SeedInjective ==
    (lab.tag = "intent" /\ lab.done /\ lab.a # lab.b) => lab.ida # lab.idb

====
